---- MODULE Spec2Model ----
(***************************************************************************)
(* Motion-control firmware of the three-wheeled patrol robot               *)
(* (ILMMCodes/integrated_movement/integrated_movement.ino).                *)
(*                                                                         *)
(* Speeds that the firmware keeps in a float (Motor.currentSpeed, the      *)
(* targetSpeed argument of moveMotor) are kept here in hundredths of a PWM *)
(* unit, so that MAX_SPEED * ACCEL_RATE and the tuning multipliers         *)
(* (0.3, 0.5, 0.6, 0.75, 1.5) are exact.  Distances are whole centimetres. *)
(* Text (commands, parameters) is a sequence of one-character strings.     *)
(***************************************************************************)
EXTENDS Integers, Sequences, FiniteSets, TLC

\* ------------------------------------------------------------------------
\* Program constants
\* ------------------------------------------------------------------------
Scale == 100
ACCEL_RATE == 15
MAX_ROTATION_SPEED == 65
CRITICAL_DISTANCE == 15
SLOW_DOWN_DISTANCE == 30
SAFE_DISTANCE == 60
MAX_AVOIDANCE_ATTEMPTS == 3
COMMAND_BUFFER_SIZE == 64
testSpeed == 60

\* ------------------------------------------------------------------------
\* Bounds of the model
\* ------------------------------------------------------------------------
\* number of serial commands dispatched in one run
MaxCmds == 2
MaxProtocolCmds == 1
MaxRampCmds == 5
MaxFramingCmds == 3
MaxCruiseCmds == 3
MaxTagCmds == 2
MaxTrackingCmds == 2
MaxMixMoves == 3
MaxHeldCmds == 1
MaxBusCmds == 2
\* the length of a command that does not fit the buffer
OverlongLen == 66
\* the silent seconds of a run
MaxTimeouts == 1

Wheels == {"motorLeft", "motorRight", "motorBack"}
Sensors == {"FL", "F", "FR", "BL", "B", "BR"}
Direction == {"FORWARD", "BACKWARD", "STOP"}

VARIABLES
    pc,                     \* position of loop(): "top" | "serial"
    pinLow,                 \* level of I2C_MASTER_OVERRIDE_PIN (TRUE = LOW = active)
    masterOverrideActive,
    MAX_SPEED, MIN_SPEED,
    DEBUG_MODE,
    useThreeWheels,
    enableObstacleAvoidance,
    motor,                  \* [Wheels -> [currentSpeed, RPWM, LPWM]]
    prevDirection,          \* static prevDirection[3] of moveMotor
    decelerationActive,
    avoidanceState, avoidanceAttempts, avoidanceSuccessful,
    dist,                   \* distFL .. distBR
    prevDist,               \* static prevFL .. prevBR of updateDistances
    frontEmergencyStop, backEmergencyStop, leftEmergencyStop, rightEmergencyStop,
    emergencyStop,
    out,                    \* lines written to Serial by the last step
    wr,                     \* duty values written to the wheels by the last step
    last,                   \* what the last step was (history)
    session,                \* the kind of host of this run
    nCmds,                  \* commands dispatched so far
    host,                   \* what the host sends on the serial line (history)
    stream,                 \* the bytes of it not yet read
    buffer,                 \* static buffer[0 .. index-1] of processSerialInput
    messageStarted, escapeNext,
    expired,                \* millis() - bufferStartTime > 1000
    timeouts,               \* silent seconds so far
    dispatched,             \* the buffers handed to parseCommand, each with the
                            \* number of bytes still unread at that time (history)
    stale,                  \* the parser as the head of processSerialInput left it
                            \* when it last found a partial command and the timer
                            \* expired, and the bytes unread at that time (history)
    tagController,          \* currentState and tagVisible of the AprilTagController
    tagFresh,               \* millis() - lastTagUpdate <= TAG_TIMEOUT
    request,                \* the velocities the last step passed to safeRobotMove
    cycle                   \* what the last step did of the control cycle (history)

vars == <<pc, pinLow, masterOverrideActive, MAX_SPEED, MIN_SPEED, DEBUG_MODE,
          useThreeWheels, enableObstacleAvoidance, motor, prevDirection,
          decelerationActive, avoidanceState, avoidanceAttempts,
          avoidanceSuccessful, dist, prevDist, frontEmergencyStop,
          backEmergencyStop, leftEmergencyStop, rightEmergencyStop,
          emergencyStop, out, wr, last, session, nCmds, host, stream, buffer,
          messageStarted, escapeNext, expired, timeouts, dispatched, stale,
          tagController, tagFresh, request, cycle>>

\* the serial line and the static variables of processSerialInput
serialLine == <<host, stream, buffer, messageStarted, escapeNext, expired,
                timeouts, dispatched, stale>>

\* the tag controller of the tracking sketch
tracking == <<tagController, tagFresh, request, cycle>>

\* ------------------------------------------------------------------------
\* Arduino helpers
\* ------------------------------------------------------------------------
Min(a, b) == IF a < b THEN a ELSE b
Max(a, b) == IF a > b THEN a ELSE b

\* Arduino's constrain macro: ((x)<(lo)?(lo):((x)>(hi)?(hi):(x)))
constrain(x, lo, hi) == IF x < lo THEN lo ELSE IF x > hi THEN hi ELSE x

\* C conversion of a float (in hundredths) to int: truncation toward zero
ToInt(h) == IF h >= 0 THEN h \div Scale ELSE -((-h) \div Scale)

\* one line written with Serial.println: its text up to the numbers printed
\* into it, and those numbers
Line(tag) == [tag |-> tag, text |-> "", arg |-> <<>>]
LineA(tag, a) == [tag |-> tag, text |-> "", arg |-> a]
DebugLine(message) == [tag |-> "DEBUG", text |-> message, arg |-> <<>>]

\* ------------------------------------------------------------------------
\* The part of the state the movement functions work on
\* ------------------------------------------------------------------------
Machine ==
    [masterOverrideActive |-> masterOverrideActive,
     motor |-> motor, prevDirection |-> prevDirection,
     decelerationActive |-> decelerationActive,
     avoidanceState |-> avoidanceState, avoidanceAttempts |-> avoidanceAttempts,
     avoidanceSuccessful |-> avoidanceSuccessful,
     out |-> <<>>, wr |-> {}]

println(M, line) == [M EXCEPT !.out = Append(@, line)]

debugPrint(M, message) ==
    IF DEBUG_MODE THEN println(M, DebugLine(message)) ELSE M

\* analogWrite on both pins of one wheel
analogWrite2(M, w, r, l) ==
    [M EXCEPT !.motor[w].RPWM = r, !.motor[w].LPWM = l, !.wr = @ \cup {r, l}]

\* ------------------------------------------------------------------------
\* Motor actuation
\* ------------------------------------------------------------------------
\* currentSpeed after the direction-change check: reset to zero when the
\* wheel was moving the other way
speedAfterDirectionChange(M, w, dir) ==
    IF M.prevDirection[w] # dir /\ M.prevDirection[w] # "STOP"
    THEN 0 ELSE M.motor[w].currentSpeed

\* currentSpeed moved toward targetSpeed by at most MAX_SPEED * ACCEL_RATE
rampedSpeed(currentSpeed, targetSpeed) ==
    IF targetSpeed > currentSpeed
    THEN Min(targetSpeed, currentSpeed + MAX_SPEED * ACCEL_RATE)
    ELSE IF targetSpeed < currentSpeed
    THEN Max(targetSpeed, currentSpeed - MAX_SPEED * ACCEL_RATE)
    ELSE currentSpeed

\* int speed = (int)currentSpeed, raised to MIN_SPEED when it is positive and
\* below it
pwmSpeed(currentSpeed) ==
    IF ToInt(currentSpeed) > 0 /\ ToInt(currentSpeed) < MIN_SPEED
    THEN MIN_SPEED ELSE ToInt(currentSpeed)

\* the switch on the direction
writeDirection(M, w, dir, speed) ==
    CASE dir = "FORWARD"  -> analogWrite2(M, w, speed, 0)
      [] dir = "BACKWARD" -> analogWrite2(M, w, 0, speed)
      [] dir = "STOP" ->
            IF ~M.decelerationActive
            THEN [analogWrite2(M, w, 0, 0) EXCEPT !.motor[w].currentSpeed = 0]
            ELSE M

\* the wheel with its new currentSpeed, written to its pins
applySpeed(M, w, dir, currentSpeed) ==
    writeDirection([M EXCEPT !.prevDirection[w] = dir,
                             !.motor[w].currentSpeed = currentSpeed],
                   w, dir, pwmSpeed(currentSpeed))

moveMotor(M, w, dir, targetSpeed) ==
    applySpeed(M, w, dir, rampedSpeed(speedAfterDirectionChange(M, w, dir), targetSpeed))

\* smooth_deceleration.ino is not part of the sources; Stop is modelled as the
\* design states it: zero duty cycle on every wheel, nothing deferred.
ZeroWheel(M, w) ==
    [analogWrite2(M, w, 0, 0) EXCEPT !.motor[w].currentSpeed = 0]

startSmoothDeceleration(M) ==
    ZeroWheel(ZeroWheel(ZeroWheel(M, "motorLeft"), "motorRight"), "motorBack")

handleSmoothDeceleration(M) ==
    IF M.decelerationActive
    THEN [startSmoothDeceleration(M) EXCEPT !.decelerationActive = FALSE]
    ELSE M

emergencyStopAllMotors(M) ==
    [startSmoothDeceleration(M) EXCEPT !.decelerationActive = FALSE]

\* a stop that leaves the wheels as they are
stopAllMotors_Nothing(M) == M

stopAllMotors(M) ==
    IF M.masterOverrideActive
    THEN debugPrint(startSmoothDeceleration(M), "STOPPED:MASTER_OVERRIDE")
    ELSE startSmoothDeceleration(M)

\* Safety-focused dynamic speed; the result is a float (hundredths)
calculateDynamicSpeed(distance, desiredSpeed) ==
    IF distance <= CRITICAL_DISTANCE THEN 0
    ELSE IF distance <= SLOW_DOWN_DISTANCE
    THEN LET span == SLOW_DOWN_DISTANCE - CRITICAL_DISTANCE
             \* desiredSpeed * (0.5 + 0.5 * (distance - CRITICAL) / span)
             num == desiredSpeed * (50 * span + 50 * (distance - CRITICAL_DISTANCE))
             safeSpeed == IF num >= 0 THEN num \div span ELSE -((-num) \div span)
         IN  Max(MIN_SPEED * Scale, safeSpeed)
    ELSE desiredSpeed * Scale

\* ------------------------------------------------------------------------
\* Rotation
\* ------------------------------------------------------------------------
ResetLR(M) ==
    [M EXCEPT !.motor["motorLeft"].currentSpeed = 0,
              !.motor["motorRight"].currentSpeed = 0]

rotateLeft(M, speed0) ==
    LET speed == constrain(speed0, MIN_SPEED, MAX_ROTATION_SPEED)
    IN  moveMotor(moveMotor(moveMotor(ResetLR(debugPrint(M, "Rotating LEFT (CCW)")),
                                      "motorLeft", "FORWARD", speed * Scale),
                            "motorRight", "FORWARD", speed * Scale),
                  "motorBack",
                  IF useThreeWheels THEN "BACKWARD" ELSE "STOP",
                  IF useThreeWheels THEN speed * Scale ELSE 0)

rotateRight(M, speed0) ==
    LET speed == constrain(speed0, MIN_SPEED, MAX_ROTATION_SPEED)
    IN  moveMotor(moveMotor(moveMotor(ResetLR(debugPrint(M, "Rotating RIGHT (CW)")),
                                      "motorLeft", "BACKWARD", speed * Scale),
                            "motorRight", "BACKWARD", speed * Scale),
                  "motorBack",
                  IF useThreeWheels THEN "FORWARD" ELSE "STOP",
                  IF useThreeWheels THEN speed * Scale ELSE 0)

\* ------------------------------------------------------------------------
\* Obstacle avoidance entry points.  Their bodies are not part of the sources;
\* they follow the design's state machine (IDLE -> ROTATING_AWAY ->
\* MOVING_PAST -> ROTATING_BACK -> RETURNING_TO_PATH -> IDLE).  Each returns
\* the machine and whether the episode has concluded.
\* ------------------------------------------------------------------------
leftClearance == Min(dist["FL"], dist["BL"])
rightClearance == Min(dist["FR"], dist["BR"])

startObstacleAvoidance(M, speed) ==
    IF M.avoidanceAttempts >= MAX_AVOIDANCE_ATTEMPTS
    THEN [M |-> [M EXCEPT !.avoidanceState = "IDLE", !.avoidanceSuccessful = FALSE],
          done |-> TRUE]
    ELSE [M |-> IF leftClearance >= rightClearance
                THEN rotateLeft([M EXCEPT !.avoidanceState = "ROTATING_AWAY",
                                          !.avoidanceAttempts = @ + 1,
                                          !.avoidanceSuccessful = FALSE], speed)
                ELSE rotateRight([M EXCEPT !.avoidanceState = "ROTATING_AWAY",
                                           !.avoidanceAttempts = @ + 1,
                                           !.avoidanceSuccessful = FALSE], speed),
          done |-> FALSE]

continueObstacleAvoidance(M) ==
    CASE M.avoidanceState = "ROTATING_AWAY" ->
            [M |-> [M EXCEPT !.avoidanceState = "MOVING_PAST"], done |-> FALSE]
      [] M.avoidanceState = "MOVING_PAST" ->
            [M |-> [M EXCEPT !.avoidanceState = "ROTATING_BACK"], done |-> FALSE]
      [] M.avoidanceState = "ROTATING_BACK" ->
            [M |-> [M EXCEPT !.avoidanceState = "RETURNING_TO_PATH"], done |-> FALSE]
      [] M.avoidanceState = "RETURNING_TO_PATH" ->
            [M |-> [M EXCEPT !.avoidanceState = "IDLE", !.avoidanceSuccessful = TRUE],
             done |-> TRUE]
      [] OTHER -> [M |-> M, done |-> TRUE]

navigateAroundObstacle(M, speed) ==
    IF M.avoidanceState = "IDLE"
    THEN startObstacleAvoidance(M, speed)
    ELSE continueObstacleAvoidance(M)

\* ------------------------------------------------------------------------
\* Discrete maneuvers
\* ------------------------------------------------------------------------
\* the three moveMotor calls of a maneuver; the back wheel is stopped in
\* two-wheel mode
Drive3(M, ld, ls, rd, rs, bd, bs) ==
    moveMotor(moveMotor(moveMotor(M, "motorLeft", ld, ls), "motorRight", rd, rs),
              "motorBack",
              IF useThreeWheels THEN bd ELSE "STOP",
              IF useThreeWheels THEN bs ELSE 0)

\* moveForward after navigateAroundObstacle has returned r
avoidanceStarted(r) ==
    IF r.done /\ r.M.avoidanceSuccessful
    THEN debugPrint(r.M, "AVOIDANCE_SUCCESSFUL:PATH_CLEARED")
    ELSE r.M

\* moveForward after continueObstacleAvoidance has returned r
avoidanceContinued(r) ==
    IF r.done
    THEN [debugPrint(r.M, IF r.M.avoidanceSuccessful
                          THEN "AVOIDANCE_COMPLETED:RETURNING_TO_NORMAL_MOVEMENT"
                          ELSE "AVOIDANCE_ABANDONED:COULD_NOT_FIND_PATH")
          EXCEPT !.avoidanceAttempts = 0, !.avoidanceState = "IDLE",
                 !.avoidanceSuccessful = FALSE]
    ELSE r.M

moveForward(M, speed0) ==
    IF frontEmergencyStop
    THEN IF enableObstacleAvoidance
         THEN avoidanceStarted(
                  navigateAroundObstacle(
                      debugPrint(M, "FORWARD_BLOCKED:EMERGENCY_STOP_ACTIVE"), speed0))
         ELSE debugPrint(M, "FORWARD_BLOCKED:EMERGENCY_STOP_ACTIVE")
    ELSE IF M.avoidanceState # "IDLE" /\ enableObstacleAvoidance
    THEN avoidanceContinued(continueObstacleAvoidance(M))
    ELSE LET speed == constrain(speed0, MIN_SPEED, MAX_SPEED)
         IN  Drive3(debugPrint(M, "Moving FORWARD"),
                    "BACKWARD", speed * Scale, "FORWARD", speed * Scale,
                    "FORWARD", speed * Scale)

moveBackward(M, speed0) ==
    IF backEmergencyStop
    THEN debugPrint(M, "BACKWARD_BLOCKED:EMERGENCY_STOP_ACTIVE")
    ELSE LET speed == constrain(speed0, MIN_SPEED, MAX_SPEED)
         IN  Drive3(debugPrint(M, "Moving BACKWARD"),
                    "FORWARD", speed * Scale, "BACKWARD", speed * Scale,
                    "BACKWARD", speed * Scale)

turnLeft(M, speed0) ==
    IF leftEmergencyStop
    THEN debugPrint(M, "LEFT_TURN_BLOCKED:EMERGENCY_STOP_ACTIVE")
    ELSE LET speed == constrain(speed0, MIN_SPEED, MAX_ROTATION_SPEED)
             leftSpeed == ToInt(Max(MIN_SPEED * Scale, speed * 50))
             rightSpeed == ToInt(Min(MAX_SPEED * Scale, speed * 150))
             M1 == debugPrint(debugPrint(M, "Arc Turning LEFT"), "TURN_LEFT")
         IN  Drive3(M1, "BACKWARD", leftSpeed * Scale, "FORWARD", rightSpeed * Scale,
                    "FORWARD", speed * 75)

turnRight(M, speed0) ==
    IF rightEmergencyStop
    THEN debugPrint(M, "RIGHT_TURN_BLOCKED:EMERGENCY_STOP_ACTIVE")
    ELSE LET speed == constrain(speed0, MIN_SPEED, MAX_ROTATION_SPEED)
             leftSpeed == ToInt(Min(MAX_SPEED * Scale, speed * 150))
             rightSpeed == ToInt(Max(MIN_SPEED * Scale, speed * 50))
             M1 == debugPrint(debugPrint(M, "Arc Turning RIGHT"), "TURN_RIGHT")
         IN  Drive3(M1, "BACKWARD", leftSpeed * Scale, "FORWARD", rightSpeed * Scale,
                    "FORWARD", speed * 75)

\* a slide to the left that does not consult the left interlock
slideLeft_Unchecked(M, speed0) ==
    LET speed == constrain(speed0, MIN_SPEED, MAX_SPEED)
    IN  IF useThreeWheels
        THEN moveMotor(moveMotor(moveMotor(M, "motorLeft", "STOP", 0),
                                 "motorRight", "BACKWARD", speed * Scale),
                       "motorBack", "FORWARD", speed * Scale)
        ELSE rotateLeft(M, speed)

slideLeft(M, speed0) ==
    IF leftEmergencyStop
    THEN debugPrint(M, "SLIDE_LEFT_BLOCKED:EMERGENCY_STOP_ACTIVE")
    ELSE LET speed == constrain(speed0, MIN_SPEED, MAX_SPEED)
             M1 == debugPrint(M, "Sliding LEFT")
         IN  IF useThreeWheels
             THEN moveMotor(moveMotor(moveMotor(M1, "motorLeft", "STOP", 0),
                                      "motorRight", "BACKWARD", speed * Scale),
                            "motorBack", "FORWARD", speed * Scale)
             ELSE IF ~leftEmergencyStop /\ ~rightEmergencyStop
             THEN rotateLeft(M1, speed)
             ELSE debugPrint(M1, "SLIDE_LEFT_BLOCKED:CANNOT_ROTATE_SAFELY")

slideRight(M, speed0) ==
    IF rightEmergencyStop
    THEN debugPrint(M, "SLIDE_RIGHT_BLOCKED:EMERGENCY_STOP_ACTIVE")
    ELSE LET speed == constrain(speed0, MIN_SPEED, MAX_SPEED)
             M1 == debugPrint(M, "Sliding RIGHT")
         IN  IF useThreeWheels
             THEN moveMotor(moveMotor(moveMotor(M1, "motorLeft", "BACKWARD", speed * Scale),
                                      "motorRight", "STOP", 0),
                            "motorBack", "BACKWARD", speed * Scale)
             ELSE IF ~leftEmergencyStop /\ ~rightEmergencyStop
             THEN rotateRight(M1, speed)
             ELSE debugPrint(M1, "SLIDE_RIGHT_BLOCKED:CANNOT_ROTATE_SAFELY")

moveDiagonalForwardLeft(M, speed0) ==
    IF frontEmergencyStop \/ leftEmergencyStop
    THEN debugPrint(M, "DIAG_FORWARD_LEFT_BLOCKED:EMERGENCY_STOP_ACTIVE")
    ELSE LET speed == constrain(speed0, MIN_SPEED, MAX_SPEED)
         IN  Drive3(debugPrint(M, "Moving Diagonal Forward-Left"),
                    "BACKWARD", speed * 30, "FORWARD", speed * Scale,
                    "FORWARD", speed * 60)

moveDiagonalForwardRight(M, speed0) ==
    IF frontEmergencyStop \/ rightEmergencyStop
    THEN debugPrint(M, "DIAG_FORWARD_RIGHT_BLOCKED:EMERGENCY_STOP_ACTIVE")
    ELSE LET speed == constrain(speed0, MIN_SPEED, MAX_SPEED)
         IN  Drive3(debugPrint(M, "Moving Diagonal Forward-Right"),
                    "BACKWARD", speed * Scale, "FORWARD", speed * 30,
                    "FORWARD", speed * 60)

moveDiagonalBackwardLeft(M, speed0) ==
    IF backEmergencyStop \/ leftEmergencyStop
    THEN debugPrint(M, "DIAG_BACKWARD_LEFT_BLOCKED:EMERGENCY_STOP_ACTIVE")
    ELSE LET speed == constrain(speed0, MIN_SPEED, MAX_SPEED)
         IN  Drive3(debugPrint(M, "Moving Diagonal Backward-Left"),
                    "FORWARD", speed * 30, "BACKWARD", speed * Scale,
                    "BACKWARD", speed * 60)

moveDiagonalBackwardRight(M, speed0) ==
    IF backEmergencyStop \/ rightEmergencyStop
    THEN debugPrint(M, "DIAG_BACKWARD_RIGHT_BLOCKED:EMERGENCY_STOP_ACTIVE")
    ELSE LET speed == constrain(speed0, MIN_SPEED, MAX_SPEED)
         IN  Drive3(debugPrint(M, "Moving Diagonal Backward-Right"),
                    "FORWARD", speed * Scale, "BACKWARD", speed * 30,
                    "BACKWARD", speed * 60)

\* ------------------------------------------------------------------------
\* The safety gate and dispatch of a discrete request
\* ------------------------------------------------------------------------
forwardDist == Min(Min(dist["FL"], dist["F"]), dist["FR"])
backwardDist == Min(Min(dist["BL"], dist["B"]), dist["BR"])
leftDist == Min(dist["FL"], dist["BL"])
rightDist == Min(dist["FR"], dist["BR"])

\* the sensor group executeMovement consults for a direction code (0 = none)
DynamicDistance(direction) ==
    CASE direction \in {1, 7, 8} -> forwardDist
      [] direction \in {2, 9, 10} -> backwardDist
      [] direction \in {3, 5} -> leftDist
      [] direction \in {4, 6} -> rightDist
      [] OTHER -> SLOW_DOWN_DISTANCE

\* int safeSpeed after the dynamic speed adjustment
SafeSpeed(direction, desiredSpeed) ==
    IF DynamicDistance(direction) < SLOW_DOWN_DISTANCE
    THEN ToInt(calculateDynamicSpeed(DynamicDistance(direction), desiredSpeed))
    ELSE desiredSpeed

GateBlocks(direction) ==
    \/ direction = 1 /\ frontEmergencyStop
    \/ direction = 2 /\ backEmergencyStop
    \/ direction = 3 /\ leftEmergencyStop
    \/ direction = 4 /\ rightEmergencyStop
    \/ direction = 5 /\ (leftEmergencyStop \/ rightEmergencyStop)
    \/ direction = 6 /\ (leftEmergencyStop \/ rightEmergencyStop)

\* the switch on the direction code, with the adjusted speed
movementSwitch(M, direction, safeSpeed) ==
    CASE direction = 1 -> moveForward(M, safeSpeed)
      [] direction = 2 -> moveBackward(M, safeSpeed)
      [] direction = 3 -> turnLeft(M, safeSpeed)
      [] direction = 4 -> turnRight(M, safeSpeed)
      [] direction = 5 ->
            rotateLeft(M, constrain(safeSpeed, MIN_SPEED, MAX_ROTATION_SPEED))
      [] direction = 6 ->
            rotateRight(M, constrain(safeSpeed, MIN_SPEED, MAX_ROTATION_SPEED))
      [] direction = 7 -> slideLeft(M, safeSpeed)
      [] direction = 8 -> slideRight(M, safeSpeed)
      [] direction = 9 -> moveDiagonalForwardLeft(M, safeSpeed)
      [] direction = 10 -> moveDiagonalForwardRight(M, safeSpeed)
      [] direction = 11 -> moveDiagonalBackwardLeft(M, safeSpeed)
      [] direction = 12 -> moveDiagonalBackwardRight(M, safeSpeed)
      [] direction = 0 -> stopAllMotors(debugPrint(M, "Stopping all motors"))
      [] OTHER -> stopAllMotors(debugPrint(M, "Unknown direction code"))

\* the speed adjustment is reported, then the switch is taken
adjustedMovement(M, direction, desiredSpeed, safeSpeed) ==
    movementSwitch(IF safeSpeed # desiredSpeed THEN debugPrint(M, "SPEED_ADJUSTED") ELSE M,
                   direction, safeSpeed)

\* the variant of executeMovement whose gate stops the wheels
executeMovement_StopWhenBlocked(M, direction, desiredSpeed) ==
    IF M.masterOverrideActive
    THEN debugPrint(M, "MOVEMENT_BLOCKED:MASTER_OVERRIDE")
    ELSE IF GateBlocks(direction)
    THEN stopAllMotors(debugPrint(M, "MOVEMENT_BLOCKED:EMERGENCY_STOP"))
    ELSE adjustedMovement(M, direction, desiredSpeed, SafeSpeed(direction, desiredSpeed))

\* the variant of executeMovement whose gate hands a vetoed forward request to
\* the avoidance procedure, enabled or not
executeMovement_AvoidWhenBlocked(M, direction, desiredSpeed) ==
    IF M.masterOverrideActive
    THEN debugPrint(M, "MOVEMENT_BLOCKED:MASTER_OVERRIDE")
    ELSE IF GateBlocks(direction)
    THEN IF direction = 1
         THEN navigateAroundObstacle(debugPrint(M, "MOVEMENT_BLOCKED:EMERGENCY_STOP"),
                                     desiredSpeed).M
         ELSE debugPrint(M, "MOVEMENT_BLOCKED:EMERGENCY_STOP")
    ELSE adjustedMovement(M, direction, desiredSpeed, SafeSpeed(direction, desiredSpeed))

executeMovement(M, direction, desiredSpeed) ==
    IF M.masterOverrideActive
    THEN debugPrint(M, "MOVEMENT_BLOCKED:MASTER_OVERRIDE")
    ELSE IF GateBlocks(direction)
    THEN debugPrint(M, "MOVEMENT_BLOCKED:EMERGENCY_STOP")
    ELSE adjustedMovement(M, direction, desiredSpeed, SafeSpeed(direction, desiredSpeed))

\* ------------------------------------------------------------------------
\* Text: C strings as sequences of characters, and sscanf
\* ------------------------------------------------------------------------
s_TEST == <<"T", "E", "S", "T">>
s_PING == <<"P", "I", "N", "G">>
s_STOP == <<"S", "T", "O", "P">>
s_CLEAR == <<"C", "L", "E", "A", "R">>
s_MOV == <<"M", "O", "V">>
s_ROT == <<"R", "O", "T">>
s_SPEED == <<"S", "P", "E", "E", "D">>
s_SENS == <<"S", "E", "N", "S">>
s_MODE == <<"M", "O", "D", "E">>
s_DEBUG == <<"D", "E", "B", "U", "G">>
s_AVOID == <<"A", "V", "O", "I", "D">>
s_I2C == <<"I", "2", "C">>
s_STATUS == <<"S", "T", "A", "T", "U", "S">>
s_TAG == <<"T", "A", "G">>
s_FRONT == <<"F", "R", "O", "N", "T">>
s_BACK == <<"B", "A", "C", "K">>
s_LEFT == <<"L", "E", "F", "T">>
s_RIGHT == <<"R", "I", "G", "H", "T">>
s_ALL == <<"A", "L", "L">>

IsDigit(c) == c \in {"0", "1", "2", "3", "4", "5", "6", "7", "8", "9"}

DigitVal(c) ==
    CASE c = "0" -> 0 [] c = "1" -> 1 [] c = "2" -> 2 [] c = "3" -> 3 [] c = "4" -> 4
      [] c = "5" -> 5 [] c = "6" -> 6 [] c = "7" -> 7 [] c = "8" -> 8 [] c = "9" -> 9

RECURSIVE SkipSpace(_, _)
SkipSpace(s, i) == IF i <= Len(s) /\ s[i] = " " THEN SkipSpace(s, i + 1) ELSE i

RECURSIVE DigitsEnd(_, _)
DigitsEnd(s, i) == IF i <= Len(s) /\ IsDigit(s[i]) THEN DigitsEnd(s, i + 1) ELSE i

RECURSIVE NumVal(_, _, _, _)
NumVal(s, i, j, acc) ==
    IF i >= j THEN acc ELSE NumVal(s, i + 1, j, acc * 10 + DigitVal(s[i]))

\* one %d conversion at position i: leading blanks, an optional sign, digits
\* the digits s[i1 .. j-1] converted, after the sign (if any) at i
ScanDigits(s, i, i1, j) ==
    IF j = i1 THEN [ok |-> FALSE, val |-> 0, next |-> i]
    ELSE [ok |-> TRUE,
          val |-> IF i1 > i /\ s[i] = "-" THEN -NumVal(s, i1, j, 0) ELSE NumVal(s, i1, j, 0),
          next |-> j]

ScanNumber(s, i, i1) == ScanDigits(s, i, i1, DigitsEnd(s, i1))

ScanSigned(s, i) ==
    ScanNumber(s, i, IF i <= Len(s) /\ s[i] \in {"-", "+"} THEN i + 1 ELSE i)

ScanInt(s, i0) == ScanSigned(s, SkipSpace(s, i0))

\* one %f conversion: as %d, with an optional fraction; the value kept is the
\* whole part
ScanFraction(s, r) ==
    IF r.ok /\ r.next <= Len(s) /\ s[r.next] = "."
    THEN [r EXCEPT !.next = DigitsEnd(s, r.next + 1)]
    ELSE r

ScanFloat(s, i0) == ScanFraction(s, ScanInt(s, i0))

\* sscanf(s, fmt) for a format of %d / %f conversions separated by commas:
\* the values converted, in order (sscanf's result is their number)
RECURSIVE ScanFields(_, _, _, _)
\* after the conversion r of the first field of fmt
ScanRest(s, fmt, vals, r) ==
    IF ~r.ok THEN vals
    ELSE IF Len(fmt) > 1 /\ r.next <= Len(s) /\ s[r.next] = ","
    THEN ScanFields(s, r.next + 1, Tail(fmt), Append(vals, r.val))
    ELSE Append(vals, r.val)

ScanFields(s, i, fmt, vals) ==
    IF fmt = <<>> THEN vals
    ELSE ScanRest(s, fmt, vals, IF Head(fmt) = "d" THEN ScanInt(s, i) ELSE ScanFloat(s, i))

sscanf(s, fmt) == ScanFields(s, 1, fmt, <<>>)

\* position of the first colon of cmd, or 0
RECURSIVE FirstColon(_, _)
FirstColon(cmd, i) ==
    IF i > Len(cmd) THEN 0 ELSE IF cmd[i] = ":" THEN i ELSE FirstColon(cmd, i + 1)

\* the verb and the parameter payload of a command (split on the first colon)
CommandOf(cmd) ==
    LET colonPos == FirstColon(cmd, 1)
    IN  IF colonPos > 0 THEN SubSeq(cmd, 1, colonPos - 1) ELSE cmd

ParamsOf(cmd) ==
    LET colonPos == FirstColon(cmd, 1)
    IN  IF colonPos > 0 THEN SubSeq(cmd, colonPos + 1, Len(cmd)) ELSE <<>>

\* ------------------------------------------------------------------------
\* testMotors
\* ------------------------------------------------------------------------
TestWheel(M, w) ==
    moveMotor(moveMotor(moveMotor(moveMotor(M, w, "FORWARD", testSpeed * Scale),
                                  w, "STOP", 0),
                        w, "BACKWARD", testSpeed * Scale),
              w, "STOP", 0)

\* the left wheel driven directly through its pins, forward then backward
TestLeftPins(M) ==
    analogWrite2(
        analogWrite2(
            println(analogWrite2(
                        analogWrite2(println(M, Line("TESTING LEFT MOTOR FORWARD")),
                                     "motorLeft", testSpeed, 0),
                        "motorLeft", 0, 0),
                    Line("TESTING LEFT MOTOR BACKWARD")),
            "motorLeft", 0, testSpeed),
        "motorLeft", 0, 0)

testMotors(M) ==
    println(println(println(
        TestWheel(println(
            TestWheel(println(
                TestWheel(println(TestLeftPins(M),
                                  Line("TESTING LEFT MOTOR WITH MOVEMOTOR")),
                          "motorLeft"),
                Line("TESTING RIGHT MOTOR")), "motorRight"),
            Line("TESTING BACK MOTOR")), "motorBack"),
        Line("MOTOR TEST COMPLETE")), Line("INFO:MOTOR_TEST")), Line("INFO:DIRECTION_HINT"))

\* ------------------------------------------------------------------------
\* parseCommand.  The result carries the machine and every global a command
\* handler assigns.
\* ------------------------------------------------------------------------
Globals(M) ==
    [M |-> M, MAX_SPEED |-> MAX_SPEED, MIN_SPEED |-> MIN_SPEED,
     DEBUG_MODE |-> DEBUG_MODE, useThreeWheels |-> useThreeWheels,
     enableObstacleAvoidance |-> enableObstacleAvoidance,
     frontEmergencyStop |-> frontEmergencyStop,
     backEmergencyStop |-> backEmergencyStop,
     leftEmergencyStop |-> leftEmergencyStop,
     rightEmergencyStop |-> rightEmergencyStop,
     emergencyStop |-> emergencyStop]

Say(G, line) == [G EXCEPT !.M = println(@, line)]
SayDebug(G, tag) == IF DEBUG_MODE THEN Say(G, Line(tag)) ELSE G

FrontSafe == dist["F"] > SAFE_DISTANCE /\ dist["FL"] > SAFE_DISTANCE /\ dist["FR"] > SAFE_DISTANCE
BackSafe == dist["B"] > SAFE_DISTANCE /\ dist["BL"] > SAFE_DISTANCE /\ dist["BR"] > SAFE_DISTANCE
LeftSafe == dist["FL"] > SAFE_DISTANCE /\ dist["BL"] > SAFE_DISTANCE
RightSafe == dist["FR"] > SAFE_DISTANCE /\ dist["BR"] > SAFE_DISTANCE

\* the four "if (flag && group clear)" blocks of CLEAR:ALL and of bare STOP/CLEAR
ClearFront(G) ==
    IF G.frontEmergencyStop /\ FrontSafe
    THEN SayDebug([G EXCEPT !.frontEmergencyStop = FALSE], "CLEARED:FRONT_EMERGENCY")
    ELSE G

ClearBack(G) ==
    IF G.backEmergencyStop /\ BackSafe
    THEN SayDebug([G EXCEPT !.backEmergencyStop = FALSE], "CLEARED:BACK_EMERGENCY")
    ELSE G

ClearLeft(G) ==
    IF G.leftEmergencyStop /\ LeftSafe
    THEN SayDebug([G EXCEPT !.leftEmergencyStop = FALSE], "CLEARED:LEFT_EMERGENCY")
    ELSE G

ClearRight(G) ==
    IF G.rightEmergencyStop /\ RightSafe
    THEN SayDebug([G EXCEPT !.rightEmergencyStop = FALSE], "CLEARED:RIGHT_EMERGENCY")
    ELSE G

ClearEach(G) == ClearRight(ClearLeft(ClearBack(ClearFront(G))))

ClearedAny(G) ==
    \/ G.frontEmergencyStop /\ FrontSafe
    \/ G.backEmergencyStop /\ BackSafe
    \/ G.leftEmergencyStop /\ LeftSafe
    \/ G.rightEmergencyStop /\ RightSafe

\* STOP and CLEAR, with or without a direction parameter
\* the branch on the direction parameter, after the wheels were stopped
ClearDirection(G, params) ==
    IF params # <<>>
    THEN IF params = s_FRONT /\ FrontSafe
         THEN SayDebug([G EXCEPT !.frontEmergencyStop = FALSE], "CLEARED:FRONT_EMERGENCY")
         ELSE IF params = s_BACK /\ BackSafe
         THEN SayDebug([G EXCEPT !.backEmergencyStop = FALSE], "CLEARED:BACK_EMERGENCY")
         ELSE IF params = s_LEFT /\ LeftSafe
         THEN SayDebug([G EXCEPT !.leftEmergencyStop = FALSE], "CLEARED:LEFT_EMERGENCY")
         ELSE IF params = s_RIGHT /\ RightSafe
         THEN SayDebug([G EXCEPT !.rightEmergencyStop = FALSE], "CLEARED:RIGHT_EMERGENCY")
         ELSE IF params = s_ALL
         THEN Say(ClearEach(G),
                  IF ClearedAny(G) THEN Line("ACK:STOP:EMERGENCY_PARTLY_CLEARED")
                  ELSE Line("ACK:STOP:NO_CHANGE"))
         ELSE Say(G, Line("ERR:Invalid CLEAR direction"))
    ELSE Say(ClearEach(G),
             IF ClearedAny(G) THEN Line("ACK:STOP:EMERGENCY_PARTLY_CLEARED")
             ELSE IF emergencyStop THEN Line("ACK:STOP:EMERGENCY_ACTIVE")
             ELSE Line("ACK:STOP"))

\* emergencyStop = front || back || left || right
UpdateEmergencyStop(G) ==
    [G EXCEPT !.emergencyStop =
        G.frontEmergencyStop \/ G.backEmergencyStop
          \/ G.leftEmergencyStop \/ G.rightEmergencyStop]

StopClear(M, params) ==
    UpdateEmergencyStop(ClearDirection(Globals(stopAllMotors(M)), params))

\* the i-th value converted by sscanf, or the variable's initial value 0
Arg(vals, i) == IF i <= Len(vals) THEN vals[i] ELSE 0

MovCommand(M, params) ==
    LET vals == sscanf(params, <<"d", "d">>)
    IN  IF Len(vals) = 2
        THEN Say(Globals(executeMovement(M, Arg(vals, 1), Arg(vals, 2))), Line("ACK:MOV"))
        ELSE Say(Globals(M), Line("ERR:Invalid MOV params"))

RotCommand(M, params) ==
    LET vals == sscanf(params, <<"d", "d">>)
        direction == Arg(vals, 1)
        speed == constrain(Arg(vals, 2), MIN_SPEED, MAX_ROTATION_SPEED)
    IN  IF Len(vals) = 2
        THEN IF direction = 1
             THEN Say(Globals(rotateLeft(M, speed)), Line("ACK:ROT:LEFT"))
             ELSE IF direction = 2
             THEN Say(Globals(rotateRight(M, speed)), Line("ACK:ROT:RIGHT"))
             ELSE Say(Globals(stopAllMotors(M)), Line("ERR:Invalid rotation direction"))
        ELSE Say(Globals(M), Line("ERR:Invalid ROT params"))

\* a SPEED handler content with one converted value
SpeedParamsOk_AtLeastOne(vals) == Len(vals) >= 1

SpeedParamsOk(vals) == Len(vals) = 2

SpeedCommand(M, params) ==
    LET vals == sscanf(params, <<"d", "d">>)
        max_speed == Arg(vals, 1)
        min_speed == Arg(vals, 2)
        newMax == constrain(max_speed, 50, 255)
        newMin == constrain(min_speed, 30, newMax - 5)
    IN  IF SpeedParamsOk(vals)
        THEN Say([Globals(M) EXCEPT !.MAX_SPEED = newMax, !.MIN_SPEED = newMin],
                 LineA("ACK:SPEED", <<newMax, newMin>>))
        ELSE Say(Globals(M), Line("ERR:Invalid SPEED params"))

ModeCommand(M, params) ==
    LET vals == sscanf(params, <<"d">>)
        mode == Arg(vals, 1)
    IN  IF Len(vals) = 1
        THEN IF mode = 0 \/ mode = 1
             THEN Say([Globals(M) EXCEPT !.useThreeWheels = (mode = 1)],
                      Line(IF mode = 1 THEN "ACK:MODE:THREE_WHEEL" ELSE "ACK:MODE:TWO_WHEEL"))
             ELSE Say(Globals(M), Line("ERR:Invalid mode value (use 0 or 1)"))
        ELSE Say(Globals(M), Line("ERR:Invalid MODE param"))

DebugCommand(M, params) ==
    LET vals == sscanf(params, <<"d">>)
        mode == Arg(vals, 1)
        G == Say([Globals(M) EXCEPT !.DEBUG_MODE = (mode = 1)],
                 Line(IF mode = 1 THEN "ACK:DEBUG:ENABLED" ELSE "ACK:DEBUG:DISABLED"))
        info == <<Line("DEBUG:Module information"), Line("DEBUG:==================="),
                  DebugLine("Distances"), DebugLine("Emergency"),
                  DebugLine("MASTER_OVERRIDE"), DebugLine("MODE"),
                  DebugLine("OBSTACLE_AVOIDANCE"), DebugLine("OVERRIDE_PIN_STATE")>>
    IN  IF Len(vals) = 1
        THEN IF mode = 1 THEN [G EXCEPT !.M.out = @ \o info] ELSE G
        ELSE Say(Globals(M), Line(IF DEBUG_MODE THEN "ACK:DEBUG_STATUS:ENABLED"
                                  ELSE "ACK:DEBUG_STATUS:DISABLED"))

AvoidCommand(M, params) ==
    LET vals == sscanf(params, <<"d">>)
        mode == Arg(vals, 1)
        M1 == IF M.avoidanceState # "IDLE"
              THEN [M EXCEPT !.avoidanceState = "IDLE", !.avoidanceAttempts = 0,
                             !.avoidanceSuccessful = FALSE]
              ELSE M
        M2 == println(M1, Line(IF mode = 1 THEN "ACK:AVOID:ENABLED" ELSE "ACK:AVOID:DISABLED"))
    IN  IF Len(vals) = 1
        THEN [Globals(debugPrint(M2, "OBSTACLE_AVOIDANCE"))
                EXCEPT !.enableObstacleAvoidance = (mode = 1)]
        ELSE Say(Globals(M), Line(IF enableObstacleAvoidance THEN "ACK:AVOID_STATUS:ENABLED"
                                  ELSE "ACK:AVOID_STATUS:DISABLED"))

TagCommand(M, params) ==
    LET vals == sscanf(params, <<"d", "f", "d", "d">>)
        M1 == IF DEBUG_MODE THEN println(M, LineA("TAG", <<Arg(vals, 1), Arg(vals, 4)>>)) ELSE M
    IN  IF Len(vals) = 4
        THEN Say(Globals(executeMovement(M1, Arg(vals, 3), Arg(vals, 4))), Line("ACK:TAG"))
        ELSE Say(Globals(M), Line("ERR:Invalid TAG params"))

\* direction code of a single-character command (-1: not a movement key)
KeyCode(c) ==
    CASE c = "W" -> 1 [] c = "S" -> 2 [] c = "A" -> 3 [] c = "D" -> 4
      [] c = "Q" -> 5 [] c = "E" -> 6 [] c = "4" -> 7 [] c = "6" -> 8
      [] c = "7" -> 9 [] c = "9" -> 10 [] c = "1" -> 11 [] c = "3" -> 12
      [] c = "5" -> 0 [] OTHER -> -1

KeyAck(code) ==
    CASE code = 1 -> "ACK:FORWARD" [] code = 2 -> "ACK:BACKWARD"
      [] code = 3 -> "ACK:ARC_LEFT" [] code = 4 -> "ACK:ARC_RIGHT"
      [] code = 5 -> "ACK:ROTATE_LEFT" [] code = 6 -> "ACK:ROTATE_RIGHT"
      [] code = 7 -> "ACK:SLIDE_LEFT" [] code = 8 -> "ACK:SLIDE_RIGHT"
      [] code = 9 -> "ACK:DIAG_FORWARD_LEFT" [] code = 10 -> "ACK:DIAG_FORWARD_RIGHT"
      [] code = 11 -> "ACK:DIAG_BACKWARD_LEFT" [] code = 12 -> "ACK:DIAG_BACKWARD_RIGHT"
      [] OTHER -> "ACK:STOP"

\* the variant of the key handler that drives at half of MAX_SPEED
KeyCommand_HalfSpeed(M, c) ==
    Say(Globals(executeMovement(M, KeyCode(c), MAX_SPEED \div 2)), Line(KeyAck(KeyCode(c))))

KeyCommand(M, c) ==
    LET code == KeyCode(c)
    IN  Say(Globals(executeMovement(M, code, IF code = 0 THEN 0 ELSE MAX_SPEED)),
            Line(KeyAck(code)))

StatusLine ==
    IF frontEmergencyStop \/ backEmergencyStop \/ leftEmergencyStop \/ rightEmergencyStop
    THEN "ACK:STATUS:EMERGENCY" ELSE "ACK:STATUS:NORMAL"

SensorArgs == <<dist["FL"], dist["F"], dist["FR"], dist["BL"], dist["B"], dist["BR"]>>

parseCommand(M0, cmd) ==
    LET M == IF DEBUG_MODE THEN println(M0, Line("Received command")) ELSE M0
        command == CommandOf(cmd)
        params == ParamsOf(cmd)
    IN  CASE command = s_TEST -> Say(Globals(testMotors(M)), Line("ACK:TEST"))
          [] command = s_PING -> Say(Globals(M), Line("ACK:PING"))
          [] command = s_STOP \/ command = s_CLEAR -> StopClear(M, params)
          [] command = s_MOV -> MovCommand(M, params)
          [] command = s_ROT -> RotCommand(M, params)
          [] command = s_SPEED -> SpeedCommand(M, params)
          [] command = s_SENS -> Say(Globals(M), LineA("ACK:SENS", SensorArgs))
          [] command = s_MODE -> ModeCommand(M, params)
          [] command = s_DEBUG -> DebugCommand(M, params)
          [] command = s_AVOID -> AvoidCommand(M, params)
          [] command = s_I2C ->
                Say(Globals(M), Line(IF M.masterOverrideActive THEN "ACK:I2C:OVERRIDE_ACTIVE"
                                     ELSE "ACK:I2C:NORMAL"))
          [] command = s_STATUS -> Say(Globals(M), LineA(StatusLine, SensorArgs))
          [] command = s_TAG -> TagCommand(M, params)
          [] OTHER ->
                IF Len(command) = 1 /\ KeyCode(command[1]) >= 0
                THEN KeyCommand(M, command[1])
                ELSE Say(Globals(M), Line("ERR:Unknown command"))

\* ------------------------------------------------------------------------
\* Sensors
\* ------------------------------------------------------------------------
Abs(x) == IF x < 0 THEN -x ELSE x

\* verifyValue is the additional reading filterReading takes when the new
\* reading jumps
filterReading(prevValue, newValue, verifyValue) ==
    IF 2 * Abs(newValue - prevValue) > prevValue /\ newValue < SAFE_DISTANCE
    THEN IF Abs(verifyValue - newValue) < Abs(verifyValue - prevValue)
         THEN newValue ELSE prevValue
    ELSE newValue

\* distFL .. distBR after updateDistances, for the six new readings and the
\* six verifying readings
updateDistances(newR, verR) ==
    [s \in Sensors |-> filterReading(prevDist[s], newR[s], verR[s])]

\* Sensor snapshots the environment presents: obstacles at 10 cm in front of
\* the named sensors, 70 cm elsewhere; or the front sensor at 20 cm
Scene(close) == [s \in Sensors |-> IF s \in close THEN 10 ELSE 70]
SlowFront == [Scene({}) EXCEPT !["F"] = 20]
Scenes ==
    {Scene({}), Scene({"F"}), Scene({"FL"}), Scene({"FR"}), Scene({"B"}),
     Scene({"BL"}), Scene({"BR"}), Scene(Sensors), SlowFront}

\* ------------------------------------------------------------------------
\* Master override
\* ------------------------------------------------------------------------
checkOverridePin(M) ==
    LET overrideActive == pinLow
    IN  IF overrideActive # M.masterOverrideActive
        THEN IF overrideActive
             THEN debugPrint(stopAllMotors([M EXCEPT !.masterOverrideActive = TRUE]),
                             "PIN:OVERRIDE_ACTIVE")
             ELSE debugPrint([M EXCEPT !.masterOverrideActive = FALSE],
                             "PIN:OVERRIDE_RELEASED")
        ELSE M

BusCommands == {"ASK_READY", "GO_IDLE", "GO_ACTIVE", "UNKNOWN", "NOT_ADDRESSED"}

receiveEvent(M, cmd) ==
    CASE cmd = "ASK_READY" -> debugPrint(M, "I2C:SENT_READY_STATUS")
      [] cmd = "GO_IDLE" ->
            debugPrint(stopAllMotors([M EXCEPT !.masterOverrideActive = TRUE]),
                       "LOCALIZATION_MODULE:ENTERED_IDLE_MODE")
      [] cmd = "GO_ACTIVE" ->
            debugPrint([M EXCEPT !.masterOverrideActive = FALSE],
                       "LOCALIZATION_MODULE:ENTERED_ACTIVE_MODE")
      [] cmd = "UNKNOWN" -> debugPrint(M, "LOCALIZATION_MODULE:UNKNOWN_CMD")
      [] OTHER -> M

\* ------------------------------------------------------------------------
\* Commands the host sends.  A session is one run of the firmware against one
\* kind of host: "motion" (teleoperation and tag following), "protocol"
\* (every verb, with well-formed and malformed payloads), "ramp" (speed
\* changes between movements).
\* ------------------------------------------------------------------------
MotionCommands ==
    {
     <<"S", "T", "O", "P">>,                                            \* STOP
     <<"C", "L", "E", "A", "R">>,                                       \* CLEAR
     <<"C", "L", "E", "A", "R", ":", "F", "R", "O", "N", "T">>,         \* CLEAR:FRONT
     <<"C", "L", "E", "A", "R", ":", "B", "A", "C", "K">>,              \* CLEAR:BACK
     <<"C", "L", "E", "A", "R", ":", "L", "E", "F", "T">>,              \* CLEAR:LEFT
     <<"C", "L", "E", "A", "R", ":", "R", "I", "G", "H", "T">>,         \* CLEAR:RIGHT
     <<"C", "L", "E", "A", "R", ":", "A", "L", "L">>,                   \* CLEAR:ALL
     <<"C", "L", "E", "A", "R", ":", "U", "P">>,                        \* CLEAR:UP
     <<"M", "O", "V", ":", "0", ",", "0">>,                             \* MOV:0,0
     <<"M", "O", "V", ":", "1", ",", "1", "0", "0">>,                   \* MOV:1,100
     <<"M", "O", "V", ":", "2", ",", "1", "0", "0">>,                   \* MOV:2,100
     <<"M", "O", "V", ":", "3", ",", "1", "0", "0">>,                   \* MOV:3,100
     <<"M", "O", "V", ":", "4", ",", "1", "0", "0">>,                   \* MOV:4,100
     <<"M", "O", "V", ":", "5", ",", "1", "0", "0">>,                   \* MOV:5,100
     <<"M", "O", "V", ":", "6", ",", "1", "0", "0">>,                   \* MOV:6,100
     <<"M", "O", "V", ":", "7", ",", "1", "0", "0">>,                   \* MOV:7,100
     <<"M", "O", "V", ":", "8", ",", "1", "0", "0">>,                   \* MOV:8,100
     <<"M", "O", "V", ":", "9", ",", "1", "0", "0">>,                   \* MOV:9,100
     <<"M", "O", "V", ":", "1", "0", ",", "1", "0", "0">>,              \* MOV:10,100
     <<"M", "O", "V", ":", "1", "1", ",", "1", "0", "0">>,              \* MOV:11,100
     <<"M", "O", "V", ":", "1", "2", ",", "1", "0", "0">>,              \* MOV:12,100
     <<"M", "O", "V", ":", "1", "3", ",", "5", "0">>,                   \* MOV:13,50
     <<"M", "O", "V", ":", "1", ",", "4", "0">>,                        \* MOV:1,40
     <<"R", "O", "T", ":", "1", ",", "6", "0">>,                        \* ROT:1,60
     <<"R", "O", "T", ":", "2", ",", "6", "0">>,                        \* ROT:2,60
     <<"R", "O", "T", ":", "3", ",", "6", "0">>,                        \* ROT:3,60
     <<"S", "P", "E", "E", "D", ":", "5", "0", ",", "3", "0">>,         \* SPEED:50,30
     <<"M", "O", "D", "E", ":", "0">>,                                  \* MODE:0
     <<"M", "O", "D", "E", ":", "1">>,                                  \* MODE:1
     <<"A", "V", "O", "I", "D", ":", "1">>,                             \* AVOID:1
     <<"T", "A", "G", ":", "5", ",", "1", "2", ".", "0", ",", "3", ",", "8", "0">>, \* TAG:5,12.0,3,80
     <<"T", "A", "G", ":", "5", ",", "1", "2", ".", "0", ",", "1", ",", "1", "0", "0">>, \* TAG:5,12.0,1,100
     <<"W">>,                                                           \* W
     <<"S">>,                                                           \* S
     <<"A">>,                                                           \* A
     <<"D">>,                                                           \* D
     <<"Q">>,                                                           \* Q
     <<"E">>,                                                           \* E
     <<"4">>,                                                           \* 4
     <<"6">>,                                                           \* 6
     <<"7">>,                                                           \* 7
     <<"9">>,                                                           \* 9
     <<"1">>,                                                           \* 1
     <<"3">>,                                                           \* 3
     <<"5">>                                                            \* 5
    }

ProtocolCommands ==
    {
     <<"T", "E", "S", "T">>,                                            \* TEST
     <<"P", "I", "N", "G">>,                                            \* PING
     <<"S", "T", "O", "P">>,                                            \* STOP
     <<"C", "L", "E", "A", "R">>,                                       \* CLEAR
     <<"C", "L", "E", "A", "R", ":", "F", "R", "O", "N", "T">>,         \* CLEAR:FRONT
     <<"C", "L", "E", "A", "R", ":", "A", "L", "L">>,                   \* CLEAR:ALL
     <<"C", "L", "E", "A", "R", ":", "U", "P">>,                        \* CLEAR:UP
     <<"M", "O", "V", ":", "0", ",", "0">>,                             \* MOV:0,0
     <<"M", "O", "V", ":", "1", ",", "1", "0", "0">>,                   \* MOV:1,100
     <<"M", "O", "V", ":", "7", ",", "1", "0", "0">>,                   \* MOV:7,100
     <<"M", "O", "V", ":", "1", ",", "0">>,                             \* MOV:1,0
     <<"M", "O", "V", ":", "1", "3", ",", "5", "0">>,                   \* MOV:13,50
     <<"M", "O", "V", ":", "-", "1", ",", "5", "0">>,                   \* MOV:-1,50
     <<"M", "O", "V", ":", "a", "b", "c">>,                             \* MOV:abc
     <<"M", "O", "V", ":", "1">>,                                       \* MOV:1
     <<"M", "O", "V">>,                                                 \* MOV
     <<"R", "O", "T", ":", "1", ",", "6", "0">>,                        \* ROT:1,60
     <<"R", "O", "T", ":", "2", ",", "6", "0">>,                        \* ROT:2,60
     <<"R", "O", "T", ":", "3", ",", "6", "0">>,                        \* ROT:3,60
     <<"R", "O", "T", ":", "x">>,                                       \* ROT:x
     <<"R", "O", "T">>,                                                 \* ROT
     <<"S", "P", "E", "E", "D", ":", "5", "0", ",", "3", "0">>,         \* SPEED:50,30
     <<"S", "P", "E", "E", "D", ":", "2", "5", "5", ",", "3", "0">>,    \* SPEED:255,30
     <<"S", "P", "E", "E", "D", ":", "3", "0", "0", ",", "1", "0">>,    \* SPEED:300,10
     <<"S", "P", "E", "E", "D", ":", "1", "2", "0", ",", "2", "0", "0">>, \* SPEED:120,200
     <<"S", "P", "E", "E", "D", ":", "a", "b", "c">>,                   \* SPEED:abc
     <<"S", "P", "E", "E", "D", ":", "1", "0", "0">>,                   \* SPEED:100
     <<"S", "P", "E", "E", "D", ":", "1", "0", "0", ",", "x">>,         \* SPEED:100,x
     <<"S", "P", "E", "E", "D", ":", ",", "5", "0">>,                   \* SPEED:,50
     <<"S", "P", "E", "E", "D">>,                                       \* SPEED
     <<"S", "E", "N", "S">>,                                            \* SENS
     <<"S", "T", "A", "T", "U", "S">>,                                  \* STATUS
     <<"I", "2", "C">>,                                                 \* I2C
     <<"M", "O", "D", "E", ":", "0">>,                                  \* MODE:0
     <<"M", "O", "D", "E", ":", "1">>,                                  \* MODE:1
     <<"M", "O", "D", "E", ":", "2">>,                                  \* MODE:2
     <<"M", "O", "D", "E", ":", "3", "W", "H", "E", "E", "L">>,         \* MODE:3WHEEL
     <<"M", "O", "D", "E">>,                                            \* MODE
     <<"D", "E", "B", "U", "G", ":", "1">>,                             \* DEBUG:1
     <<"D", "E", "B", "U", "G", ":", "0">>,                             \* DEBUG:0
     <<"D", "E", "B", "U", "G">>,                                       \* DEBUG
     <<"A", "V", "O", "I", "D", ":", "1">>,                             \* AVOID:1
     <<"A", "V", "O", "I", "D", ":", "0">>,                             \* AVOID:0
     <<"A", "V", "O", "I", "D">>,                                       \* AVOID
     <<"T", "A", "G", ":", "5", ",", "1", "2", ".", "0", ",", "3", ",", "8", "0">>, \* TAG:5,12.0,3,80
     <<"T", "A", "G", ":", "5", ",", "1", "2", ".", "0", ",", "3">>,    \* TAG:5,12.0,3
     <<"T", "A", "G">>,                                                 \* TAG
     <<"W">>,                                                           \* W
     <<"5">>,                                                           \* 5
     <<"X">>,                                                           \* X
     <<"F", "O", "O">>,                                                 \* FOO
     <<"m", "o", "v", ":", "1", ",", "1", "0", "0">>                    \* mov:1,100
    }

RampCommands ==
    {
     <<"S", "P", "E", "E", "D", ":", "2", "5", "5", ",", "3", "0">>,    \* SPEED:255,30
     <<"S", "P", "E", "E", "D", ":", "5", "0", ",", "3", "0">>,         \* SPEED:50,30
     <<"S", "P", "E", "E", "D", ":", "2", "5", "5", ",", "1", "5", "0">>,  \* SPEED:255,150
     <<"M", "O", "V", ":", "1", ",", "2", "5", "5">>,                   \* MOV:1,255
     <<"M", "O", "V", ":", "2", ",", "2", "5", "5">>,                   \* MOV:2,255
     <<"M", "O", "D", "E", ":", "1">>,                                  \* MODE:1
     <<"M", "O", "D", "E", ":", "0">>,                                  \* MODE:0
     <<"R", "O", "T", ":", "1", ",", "6", "5">>,                        \* ROT:1,65
     <<"S", "T", "O", "P">>                                             \* STOP
    }

CruiseCommands ==
    {
     <<"M", "O", "V", ":", "1", ",", "1", "0", "0">>,                   \* MOV:1,100
     <<"M", "O", "D", "E", ":", "1">>,                                  \* MODE:1
     <<"D", "E", "B", "U", "G", ":", "1">>,                             \* DEBUG:1
     <<"T", "A", "G", ":", "5", ",", "1", "2", ".", "0", ",", "3", ",", "8", "0">>
                                                                        \* TAG:5,12.0,3,80
    }

\* a "bus" session: straight movements while the master talks on the bus
BusSessionCommands ==
    {
     <<"M", "O", "V", ":", "1", ",", "1", "0", "0">>,                   \* MOV:1,100
     <<"M", "O", "V", ":", "2", ",", "1", "0", "0">>,                   \* MOV:2,100
     <<"S", "T", "O", "P">>                                             \* STOP
    }

Commands(s) ==
    CASE s = "motion" -> MotionCommands
      [] s = "bus" -> BusSessionCommands
      [] s = "cruise" -> CruiseCommands
      [] s = "protocol" -> ProtocolCommands
      [] s = "ramp" -> RampCommands
      [] OTHER -> {}

Budget(s) ==
    CASE s = "motion" -> MaxCmds
      [] s = "protocol" -> MaxProtocolCmds
      [] s = "ramp" -> MaxRampCmds
      [] s = "framing" -> MaxFramingCmds
      [] s = "cruise" -> MaxCruiseCmds
      [] s = "tag" -> MaxTagCmds
      [] s = "tracking" -> MaxTrackingCmds
      [] s = "held" -> MaxHeldCmds
      [] s = "bus" -> MaxBusCmds

\* the scenes of a "bus" session: nothing near, an obstacle ahead, obstacles
\* all around
BusScenes == {Scene({}), Scene({"F"}), Scene(Sensors)}

Readings(s) ==
    IF s \in {"ramp", "framing", "cruise", "held"} THEN {Scene({})}
    ELSE IF s = "bus" THEN BusScenes
    ELSE Scenes

\* ------------------------------------------------------------------------
\* processSerialInput: the byte-stream parser
\* ------------------------------------------------------------------------
START_MARKER == "<"
END_MARKER == ">"
ESCAPE_CHAR == "\\"

\* the static variables of processSerialInput (index is Len(buffer))
Parser == [buffer |-> buffer, messageStarted |-> messageStarted, escapeNext |-> escapeNext]

IdleParser == [buffer |-> <<>>, messageStarted |-> FALSE, escapeNext |-> FALSE]

\* the head of processSerialInput finds a partial command older than 1 second
TimeoutReset(P, timedOut) == Len(P.buffer) > 0 /\ timedOut

\* the parser after the head of processSerialInput
afterTimeoutCheck(P, timedOut) ==
    IF TimeoutReset(P, timedOut) THEN IdleParser ELSE P

\* the variant of storeChar that drops the character after an escape
storeChar_DropEscaped(P, c) ==
    IF P.escapeNext THEN [P EXCEPT !.escapeNext = FALSE]
    ELSE IF Len(P.buffer) < COMMAND_BUFFER_SIZE - 1 /\ (P.messageStarted \/ Len(P.buffer) > 0 \/ c # " ")
    THEN [P EXCEPT !.buffer = Append(@, c)]
    ELSE P

\* the last branch of the loop body: a regular character, or an escaped
\* special character
storeChar(P, c) ==
    IF Len(P.buffer) < COMMAND_BUFFER_SIZE - 1
    THEN IF P.escapeNext
         THEN [P EXCEPT !.buffer = Append(@, c), !.escapeNext = FALSE]
         ELSE IF P.messageStarted
         THEN [P EXCEPT !.buffer = Append(@, c)]
         ELSE IF Len(P.buffer) = 0 /\ c # " "
         THEN [P EXCEPT !.buffer = Append(@, c)]
         ELSE IF Len(P.buffer) > 0
         THEN [P EXCEPT !.buffer = Append(@, c)]
         ELSE P
    ELSE P

\* does character c, read in parser state P, hand the buffer to parseCommand
completesCommand(P, c) ==
    \/ ~P.messageStarted /\ c \in {"\n", "\r"} /\ Len(P.buffer) > 0
    \/ ~(~P.messageStarted /\ c \in {"\n", "\r"})
         /\ ~(c = START_MARKER /\ ~P.escapeNext)
         /\ c = END_MARKER /\ ~P.escapeNext /\ P.messageStarted

\* the parser after one pass of the loop body with character c
processChar(P, c) ==
    IF ~P.messageStarted /\ c \in {"\n", "\r"}
    THEN IF Len(P.buffer) > 0 THEN [P EXCEPT !.buffer = <<>>] ELSE P
    ELSE IF c = START_MARKER /\ ~P.escapeNext
    THEN [P EXCEPT !.messageStarted = TRUE, !.buffer = <<>>]
    ELSE IF c = END_MARKER /\ ~P.escapeNext /\ P.messageStarted
    THEN [P EXCEPT !.messageStarted = FALSE, !.buffer = <<>>]
    ELSE IF c = ESCAPE_CHAR /\ ~P.escapeNext
    THEN [P EXCEPT !.escapeNext = TRUE]
    ELSE storeChar(P, c)

\* ------------------------------------------------------------------------
\* What the host puts on the serial line in a "framing" session: some prior
\* bytes, then one frame
\* ------------------------------------------------------------------------
RECURSIVE Rep(_, _)
Rep(c, n) == IF n = 0 THEN <<>> ELSE <<c>> \o Rep(c, n - 1)

\* the payload with every marker and escape character preceded by the escape
\* character
RECURSIVE Escaped(_)
Escaped(p) ==
    IF p = <<>> THEN <<>>
    ELSE (IF Head(p) \in {START_MARKER, END_MARKER, ESCAPE_CHAR}
          THEN <<ESCAPE_CHAR, Head(p)>> ELSE <<Head(p)>>) \o Escaped(Tail(p))

Frame(p) == <<START_MARKER>> \o Escaped(p) \o <<END_MARKER>>

PayloadBytes == {"W", "<", ">", "\\", "\n"}

ShortPayloads ==
    {<<>>} \cup {<<a>> : a \in PayloadBytes}
      \cup {<<a, b>> : a \in PayloadBytes, b \in PayloadBytes}

\* payloads that fill the buffer
LongPayloads ==
    {Rep("W", COMMAND_BUFFER_SIZE - 1),
     Rep("W", COMMAND_BUFFER_SIZE - 2) \o <<">">>}

\* a command longer than the buffer
Overlong == Rep("X", OverlongLen)

ShortPriors ==
    {<<>>,                                  \* nothing: the parser is idle
     <<"W">>,                               \* partial legacy text
     <<"W", "\n">>,                         \* a complete legacy command
     <<"\\">>,                              \* a stray escape character
     <<"<">>,                               \* a frame just opened
     <<"<", "W">>,                          \* an incomplete frame
     <<"<", "W", "\\">>}                    \* an incomplete frame ending in an escape

LongPriors ==
    {Overlong,                              \* overlong legacy text, not terminated
     Overlong \o <<"\n">>,                  \* an overlong legacy command
     <<"<">> \o Overlong,                   \* an overlong frame, not terminated
     <<"<">> \o Overlong \o <<">">>}        \* an overlong frame

Hosts ==
    [prior : ShortPriors, payload : ShortPayloads]
      \cup [prior : LongPriors, payload : {<<"W">>}]
      \cup [prior : {<<>>, <<"\\">>}, payload : LongPayloads]

\* ------------------------------------------------------------------------
\* State after setup()
\* ------------------------------------------------------------------------
NoCmd ==
    [kind |-> "none", cmd |-> <<>>, wheelsChanged |-> FALSE, directionsChanged |-> FALSE,
     configChanged |-> FALSE, flagsChanged |-> FALSE]

NoStale == [seen |-> FALSE, parser |-> IdleParser, unread |-> 0]

\* AprilTagController after its constructor or reset()
IdleController ==
    [currentState |-> "IDLE", tagVisible |-> FALSE,
     targetX |-> 0, targetY |-> 0, targetYaw |-> 0]

\* three wheel values, all zero
ZeroMix == [left |-> 0, right |-> 0, back |-> 0]

\* mix and pwm: the wheel values and duties moveRobot last computed
NoRequest ==
    [issued |-> FALSE, vy |-> 0, vx |-> 0, omega |-> 0, mix |-> ZeroMix, pwm |-> ZeroMix]

NoCycle == [ran |-> FALSE, stale |-> FALSE, moving |-> FALSE, from |-> "IDLE"]

Setup ==
    /\ pc = "top"
    /\ pinLow \in BOOLEAN
    /\ masterOverrideActive = pinLow
    /\ MAX_SPEED = 100
    /\ MIN_SPEED = 50
    /\ DEBUG_MODE = FALSE
    /\ useThreeWheels = FALSE
    /\ enableObstacleAvoidance = FALSE
    /\ motor = [w \in Wheels |-> [currentSpeed |-> 0, RPWM |-> 0, LPWM |-> 0]]
    /\ prevDirection = [w \in Wheels |-> "STOP"]
    /\ decelerationActive = FALSE
    /\ avoidanceState = "IDLE"
    /\ avoidanceAttempts = 0
    /\ avoidanceSuccessful = FALSE
    /\ dist = [s \in Sensors |-> 0]
    /\ prevDist = [s \in Sensors |-> SAFE_DISTANCE]
    /\ frontEmergencyStop = FALSE
    /\ backEmergencyStop = FALSE
    /\ leftEmergencyStop = FALSE
    /\ rightEmergencyStop = FALSE
    /\ emergencyStop = FALSE
    /\ out = <<>>
    /\ wr = {}
    /\ last = NoCmd
    /\ nCmds = 0
    /\ buffer = <<>>
    /\ messageStarted = FALSE
    /\ escapeNext = FALSE
    /\ expired = FALSE
    /\ timeouts = 0
    /\ dispatched = <<>>
    /\ stale = NoStale
    /\ tagController = IdleController
    /\ tagFresh = TRUE
    /\ request = NoRequest
    /\ cycle = NoCycle

\* the host sends whole commands, one at a time
WholeCommands ==
    /\ host = [prior |-> <<>>, payload |-> <<>>]
    /\ stream = <<>>

\* the host sends bytes: some prior bytes, then one frame
PriorBytesThenFrame ==
    /\ host \in Hosts
    /\ stream = host.prior \o Frame(host.payload)

Init == Setup /\ session = "motion" /\ WholeCommands
InitProtocol == Setup /\ session = "protocol" /\ WholeCommands
InitRamp == Setup /\ session = "ramp" /\ WholeCommands
InitFraming == Setup /\ session = "framing" /\ PriorBytesThenFrame
InitCruise == Setup /\ session = "cruise" /\ WholeCommands /\ ~pinLow

\* the requests of a "held" session
HeldRequests ==
    {<<"M", "O", "V", ":", "1", ",", "1", "0", "0">>,                   \* MOV:1,100
     <<"R", "O", "T", ":", "1", ",", "6", "0">>,                        \* ROT:1,60
     <<"W">>}                                                           \* W

\* a "held" session: the host has sent one framed request, which waits in the
\* receive buffer when loop() is first called; underOverride records whether
\* the master override was active when it arrived
InitHeld ==
    /\ Setup
    /\ session = "held"
    /\ \E p \in HeldRequests :
           host = [prior |-> <<>>, payload |-> p, underOverride |-> masterOverrideActive]
    /\ stream = Frame(host.payload)

\* the run is observed until the host has sent its last command; a "cruise"
\* session is observed for ever
Running == session = "cruise" \/ nCmds < Budget(session)

\* ------------------------------------------------------------------------
\* Steps
\* ------------------------------------------------------------------------
Commit(M) ==
    /\ masterOverrideActive' = M.masterOverrideActive
    /\ motor' = M.motor
    /\ prevDirection' = M.prevDirection
    /\ decelerationActive' = M.decelerationActive
    /\ avoidanceState' = M.avoidanceState
    /\ avoidanceAttempts' = M.avoidanceAttempts
    /\ avoidanceSuccessful' = M.avoidanceSuccessful
    /\ out' = M.out
    /\ wr' = M.wr

config == <<MAX_SPEED, MIN_SPEED, DEBUG_MODE, useThreeWheels, enableObstacleAvoidance>>
flags == <<frontEmergencyStop, backEmergencyStop, leftEmergencyStop,
           rightEmergencyStop, emergencyStop>>

\* loop() up to the return of the override branch, or up to the serial input
LoopTop ==
    /\ pc = "top"
    /\ Running
    /\ \E M1 \in {checkOverridePin(Machine)} :
           IF M1.masterOverrideActive
           THEN /\ \E due \in (IF DEBUG_MODE THEN BOOLEAN ELSE {FALSE}) :
                     Commit(stopAllMotors(IF due
                                          THEN debugPrint(M1, "STATUS:MASTER_OVERRIDE_ACTIVE")
                                          ELSE M1))
                /\ pc' = "top"
           ELSE /\ \E due \in (IF DEBUG_MODE THEN BOOLEAN ELSE {FALSE}) :
                     Commit(IF due THEN println(M1, Line("LOCALIZATION_MODULE:READY")) ELSE M1)
                /\ pc' = "serial"
    /\ last' = NoCmd
    /\ UNCHANGED <<pinLow, config, flags, dist, prevDist, session, nCmds, serialLine, tracking>>

\* one complete command taken from the serial line and dispatched
Dispatch(cmd) ==
    /\ pc = "serial"
    /\ Running
    /\ nCmds < Budget(session)
    /\ \E G \in {parseCommand(Machine, cmd)} :
           /\ Commit(G.M)
           /\ MAX_SPEED' = G.MAX_SPEED
           /\ MIN_SPEED' = G.MIN_SPEED
           /\ DEBUG_MODE' = G.DEBUG_MODE
           /\ useThreeWheels' = G.useThreeWheels
           /\ enableObstacleAvoidance' = G.enableObstacleAvoidance
           /\ frontEmergencyStop' = G.frontEmergencyStop
           /\ backEmergencyStop' = G.backEmergencyStop
           /\ leftEmergencyStop' = G.leftEmergencyStop
           /\ rightEmergencyStop' = G.rightEmergencyStop
           /\ emergencyStop' = G.emergencyStop
    /\ last' = [kind |-> "cmd", cmd |-> cmd,
                wheelsChanged |-> (motor' # motor),
                directionsChanged |-> (prevDirection' # prevDirection),
                configChanged |-> (config' # config),
                flagsChanged |-> (flags' # flags)]
    /\ nCmds' = nCmds + 1
    /\ UNCHANGED <<pc, pinLow, dist, prevDist, session, serialLine, tracking>>

\* the rest of loop() after the serial input: deceleration, and, when the
\* 50 ms interval has elapsed, the sensor update and the interlock flags
frontDanger(d) ==
    d["F"] < CRITICAL_DISTANCE \/ d["FL"] < CRITICAL_DISTANCE \/ d["FR"] < CRITICAL_DISTANCE
backDanger(d) ==
    d["B"] < CRITICAL_DISTANCE \/ d["BL"] < CRITICAL_DISTANCE \/ d["BR"] < CRITICAL_DISTANCE
leftDanger(d) == d["FL"] < CRITICAL_DISTANCE \/ d["BL"] < CRITICAL_DISTANCE
rightDanger(d) == d["FR"] < CRITICAL_DISTANCE \/ d["BR"] < CRITICAL_DISTANCE
anyDanger(d) == frontDanger(d) \/ backDanger(d) \/ leftDanger(d) \/ rightDanger(d)
allDanger(d) == frontDanger(d) /\ backDanger(d) /\ leftDanger(d) /\ rightDanger(d)

\* a debug line printed when its condition holds
reportIf(M, condition, message) == IF condition THEN debugPrint(M, message) ELSE M

\* the lines printed when a flag changes value
flagReports(M, d) ==
    reportIf(reportIf(reportIf(reportIf(M, frontDanger(d) # frontEmergencyStop,
                                        "EMERGENCY:FRONT"),
                               backDanger(d) # backEmergencyStop, "EMERGENCY:BACK"),
                      leftDanger(d) # leftEmergencyStop, "EMERGENCY:LEFT"),
             rightDanger(d) # rightEmergencyStop, "EMERGENCY:RIGHT")

\* on entering an emergency with every side blocked the wheels are stopped at
\* once
criticalStop(M, d) ==
    IF anyDanger(d) /\ ~emergencyStop /\ allDanger(d)
    THEN debugPrint(emergencyStopAllMotors(M), "CRITICAL_EMERGENCY:ALL_SIDES_BLOCKED")
    ELSE M

statusReport(M, due) == IF due THEN println(M, Line("STATUS")) ELSE M

ControlTick(M, newR, verR, due) ==
    \E d \in {updateDistances(newR, verR)} :
        /\ dist' = d
        /\ prevDist' = d
        /\ frontEmergencyStop' = frontDanger(d)
        /\ backEmergencyStop' = backDanger(d)
        /\ leftEmergencyStop' = leftDanger(d)
        /\ rightEmergencyStop' = rightDanger(d)
        /\ emergencyStop' = anyDanger(d)
        /\ \E M8 \in {statusReport(reportIf(criticalStop(flagReports(M, d), d),
                                             anyDanger(d) /\ ~emergencyStop, "Distances"),
                                    due)} :
               Commit(M8)

LoopControl ==
    /\ pc \in {"serial", "reading"}
    /\ Running
    /\ \E M \in {handleSmoothDeceleration(Machine)} :
           \/ /\ Commit(M)
              /\ UNCHANGED <<flags, dist, prevDist>>
           \/ \E newR \in Readings(session), due \in (IF DEBUG_MODE THEN BOOLEAN ELSE {FALSE}) :
                \E verR \in {newR, prevDist} :
                    ControlTick(IF DEBUG_MODE /\ due /\ \E s \in Sensors : newR[s] < CRITICAL_DISTANCE
                                THEN debugPrint(M, "CRITICAL_DISTANCE") ELSE M,
                                newR, verR, due)
    /\ pc' = "top"
    /\ last' = NoCmd
    /\ UNCHANGED <<pinLow, config, session, nCmds, serialLine, tracking>>

\* the bus interrupt
ReceiveEvent(cmd) ==
    /\ Running
    /\ \E M \in {receiveEvent(Machine, cmd)} : Commit(M)
    /\ last' = NoCmd
    /\ UNCHANGED <<pc, pinLow, config, flags, dist, prevDist, session, nCmds,
                   serialLine, tracking>>

\* the master drives the override pin
PinChange ==
    /\ Running
    /\ pinLow' = ~pinLow
    /\ out' = <<>>
    /\ wr' = {}
    /\ last' = NoCmd
    /\ UNCHANGED <<pc, masterOverrideActive, config, flags, motor, prevDirection,
                   decelerationActive, avoidanceState, avoidanceAttempts,
                   avoidanceSuccessful, dist, prevDist, session, nCmds, serialLine, tracking>>

Next ==
    \/ LoopTop
    \/ \E cmd \in Commands(session) : Dispatch(cmd)
    \/ LoopControl
    \/ \E cmd \in BusCommands : ReceiveEvent(cmd)
    \/ PinChange

\* ------------------------------------------------------------------------
\* Steps of a "framing" session: the serial line is read byte by byte
\* ------------------------------------------------------------------------
CommitGlobals(G) ==
    /\ Commit(G.M)
    /\ MAX_SPEED' = G.MAX_SPEED
    /\ MIN_SPEED' = G.MIN_SPEED
    /\ DEBUG_MODE' = G.DEBUG_MODE
    /\ useThreeWheels' = G.useThreeWheels
    /\ enableObstacleAvoidance' = G.enableObstacleAvoidance
    /\ frontEmergencyStop' = G.frontEmergencyStop
    /\ backEmergencyStop' = G.backEmergencyStop
    /\ leftEmergencyStop' = G.leftEmergencyStop
    /\ rightEmergencyStop' = G.rightEmergencyStop
    /\ emergencyStop' = G.emergencyStop

\* one character read by processSerialInput. It is the first character of a
\* call (the head of the function has just run) or a further pass of the
\* loop of the same call.
ReadChar(entry, P, c) ==
    /\ buffer' = processChar(P, c).buffer
    /\ messageStarted' = processChar(P, c).messageStarted
    /\ escapeNext' = processChar(P, c).escapeNext
    /\ stale' = IF entry /\ expired /\ Parser # IdleParser
                THEN [seen |-> TRUE, parser |-> P, unread |-> Len(stream)] ELSE stale
    /\ \E M \in {IF entry /\ TimeoutReset(Parser, expired)
                  THEN debugPrint(Machine, "BUFFER_TIMEOUT_RESET") ELSE Machine} :
           IF completesCommand(P, c)
           THEN /\ CommitGlobals(parseCommand(M, P.buffer))
                /\ dispatched' = Append(dispatched, [cmd |-> P.buffer,
                                                     unread |-> Len(stream) - 1])
                /\ nCmds' = nCmds + 1
                /\ last' = [kind |-> "cmd", cmd |-> P.buffer,
                            wheelsChanged |-> (motor' # motor),
                            directionsChanged |-> (prevDirection' # prevDirection),
                            configChanged |-> (config' # config),
                            flagsChanged |-> (flags' # flags)]
           ELSE /\ Commit(M)
                /\ last' = NoCmd
                /\ UNCHANGED <<config, flags, dispatched, nCmds>>

SerialByte ==
    /\ pc \in {"serial", "reading"}
    /\ Running
    /\ stream # <<>>
    /\ \E entry \in (IF pc = "serial" THEN {TRUE} ELSE BOOLEAN) :
           ReadChar(entry, IF entry THEN afterTimeoutCheck(Parser, expired) ELSE Parser,
                    Head(stream))
    /\ stream' = Tail(stream)
    /\ expired' = FALSE
    /\ pc' = "reading"
    /\ UNCHANGED <<pinLow, dist, prevDist, session, host, timeouts, tracking>>

\* more than one second passes without a character on the line
Expire ==
    /\ pc = "serial"
    /\ Running
    /\ timeouts < MaxTimeouts
    /\ expired' = TRUE
    /\ timeouts' = timeouts + 1
    /\ out' = <<>>
    /\ wr' = {}
    /\ last' = NoCmd
    /\ UNCHANGED <<pc, pinLow, masterOverrideActive, config, flags, motor, prevDirection,
                   decelerationActive, avoidanceState, avoidanceAttempts,
                   avoidanceSuccessful, dist, prevDist, session, nCmds, host, stream,
                   buffer, messageStarted, escapeNext, dispatched, stale, tracking>>

NextFraming ==
    \/ LoopTop
    \/ SerialByte
    \/ Expire
    \/ LoopControl

Spec == Init /\ [][Next]_vars
SpecFraming == InitFraming /\ [][NextFraming]_vars

\* a "held" session: the pin may change at any time
NextHeld ==
    \/ LoopTop
    \/ SerialByte
    \/ LoopControl
    \/ PinChange

SpecHeld == InitHeld /\ [][NextHeld]_vars

\* ------------------------------------------------------------------------
\* A "bus" session: the override pin stays released and the master sends its
\* commands over the bus; receiveEvent runs as an interrupt
\* ------------------------------------------------------------------------
InitBus == Setup /\ session = "bus" /\ WholeCommands /\ ~pinLow

\* a MOV command during which GO_IDLE arrives on the bus after executeMovement
\* has tested masterOverrideActive and before it writes to a wheel
movInterrupted(M, cmd) ==
    [parseCommand([receiveEvent(M, "GO_IDLE") EXCEPT !.masterOverrideActive = FALSE], cmd)
        EXCEPT !.M.masterOverrideActive = TRUE]

DispatchInterrupted(cmd) ==
    /\ pc = "serial"
    /\ Running
    /\ nCmds < Budget(session)
    /\ CommandOf(cmd) = s_MOV
    /\ ~masterOverrideActive
    /\ CommitGlobals(movInterrupted(Machine, cmd))
    /\ last' = [kind |-> "cmd", cmd |-> cmd,
                wheelsChanged |-> (motor' # motor),
                directionsChanged |-> (prevDirection' # prevDirection),
                configChanged |-> (config' # config),
                flagsChanged |-> (flags' # flags)]
    /\ nCmds' = nCmds + 1
    /\ UNCHANGED <<pc, pinLow, dist, prevDist, session, serialLine, tracking>>

NextBus ==
    \/ LoopTop
    \/ \E cmd \in Commands(session) : Dispatch(cmd)
    \/ \E cmd \in Commands(session) : DispatchInterrupted(cmd)
    \/ LoopControl
    \/ \E cmd \in BusCommands : ReceiveEvent(cmd)

SpecBus == InitBus /\ [][NextBus]_vars

\* a "cruise" session: the override pin stays released, the bus is silent,
\* and loop() is called again and again for ever
NextCruise ==
    \/ LoopTop
    \/ \E cmd \in Commands(session) : Dispatch(cmd)
    \/ LoopControl

SpecCruise ==
    InitCruise /\ [][NextCruise]_vars /\ WF_vars(LoopTop) /\ WF_vars(LoopControl)
SpecProtocol == InitProtocol /\ [][Next]_vars
SpecRamp == InitRamp /\ [][Next]_vars

\* ------------------------------------------------------------------------
\* The tag-tracking sketch (src/unnamed/part_000): a second program with its
\* own globals, motor functions, command parser and loop()
\* ------------------------------------------------------------------------
CRITICAL_DISTANCE_tag == 10
SLOW_DOWN_DISTANCE_tag == 30
\* positions are kept in millimetres, angles in thousandths of a radian
POSITION_TOLERANCE == 5
ROTATION_TOLERANCE == 50
PI == 3142
\* vy, vx, omega and the wheel speeds mixed from them are kept in thousandths
Unit == 1000
DEADBAND == 100

s_SENSOR == <<"S", "E", "N", "S", "O", "R">>

TrackingState == {"IDLE", "MOVING_TO_TAG", "ALIGNING_WITH_TAG", "MAINTAINING_POSITION"}

\* the globals of the sketch the functions below work on
Sketch ==
    [motor |-> motor, MAX_SPEED |-> MAX_SPEED, MIN_SPEED |-> MIN_SPEED,
     dist |-> dist, emergencyStop |-> emergencyStop,
     tagController |-> tagController, out |-> <<>>, wr |-> {},
     request |-> NoRequest]

\* integer division rounding toward zero, as the conversion of a float to int
Quot(a, b) == IF a >= 0 THEN a \div b ELSE -((-a) \div b)

calculateDynamicSpeed_tag(G, distance, targetSpeed) ==
    IF distance <= CRITICAL_DISTANCE_tag THEN 0
    ELSE IF distance <= SLOW_DOWN_DISTANCE_tag
    THEN Quot(G.MIN_SPEED * (SLOW_DOWN_DISTANCE_tag - CRITICAL_DISTANCE_tag)
                + (targetSpeed - G.MIN_SPEED) * (distance - CRITICAL_DISTANCE_tag),
              SLOW_DOWN_DISTANCE_tag - CRITICAL_DISTANCE_tag)
    ELSE targetSpeed

\* currentSpeed moved toward targetSpeed by at most MAX_SPEED * ACCEL_RATE
rampedSpeed_tag(G, currentSpeed, targetSpeed) ==
    IF targetSpeed > currentSpeed
    THEN Min(targetSpeed, currentSpeed + G.MAX_SPEED * ACCEL_RATE)
    ELSE IF targetSpeed < currentSpeed
    THEN Max(targetSpeed, currentSpeed - G.MAX_SPEED * ACCEL_RATE)
    ELSE currentSpeed

\* the switch on the direction, with speed = (int)motor.currentSpeed
writeDirection_tag(G, w, dir) ==
    CASE dir = "FORWARD"  -> analogWrite2(G, w, ToInt(G.motor[w].currentSpeed), 0)
      [] dir = "BACKWARD" -> analogWrite2(G, w, 0, ToInt(G.motor[w].currentSpeed))
      [] dir = "STOP" -> [analogWrite2(G, w, 0, 0) EXCEPT !.motor[w].currentSpeed = 0]

\* targetSpeed is a whole number
moveMotor_tag(G, w, dir, targetSpeed) ==
    writeDirection_tag(
        [G EXCEPT !.motor[w].currentSpeed =
                      rampedSpeed_tag(G, @, constrain(targetSpeed, 0, G.MAX_SPEED) * Scale)],
        w, dir)

stopAllMotors_tag(G) ==
    moveMotor_tag(moveMotor_tag(moveMotor_tag(G, "motorLeft", "STOP", 0),
                                "motorRight", "STOP", 0),
                  "motorBack", "STOP", 0)

forwardDist_tag(G) == Min(Min(G.dist["FL"], G.dist["F"]), G.dist["FR"])
backwardDist_tag(G) == Min(Min(G.dist["BL"], G.dist["B"]), G.dist["BR"])
leftDist_tag(G) == Min(G.dist["FL"], G.dist["BL"])
rightDist_tag(G) == Min(G.dist["FR"], G.dist["BR"])

\* the holonomic mix of the three wheels
wheelMix(vy, vx, omega) ==
    [left |-> Quot(-500 * vx - 866 * vy, Unit) + omega,
     right |-> Quot(-500 * vx + 866 * vy, Unit) + omega,
     back |-> vx + omega]

maxSpeed(m) == Max(Abs(m.left), Max(Abs(m.right), Abs(m.back)))

\* the variant of scaledSpeed that applies the deadband only
scaledSpeed_Unscaled(x, mx) == IF Abs(x) < DEADBAND THEN 0 ELSE x

\* one wheel's share scaled into [-1, 1] and cut to zero inside the deadband
scaledSpeed(x, mx) ==
    IF Abs(IF mx > Unit THEN Quot(x * Unit, mx) ELSE x) < DEADBAND
    THEN 0
    ELSE IF mx > Unit THEN Quot(x * Unit, mx) ELSE x

scaledMix(m, mx) ==
    [left |-> scaledSpeed(m.left, mx), right |-> scaledSpeed(m.right, mx),
     back |-> scaledSpeed(m.back, mx)]

\* int pwm = abs(speed) * speedScale, then slowed near an obstacle on the side
\* the wheel pushes toward
wheelPWM(G, x, distPositive, distNegative) ==
    IF x > 0
    THEN calculateDynamicSpeed_tag(G, distPositive, (Abs(x) * G.MAX_SPEED) \div Unit)
    ELSE IF x < 0
    THEN calculateDynamicSpeed_tag(G, distNegative, (Abs(x) * G.MAX_SPEED) \div Unit)
    ELSE (Abs(x) * G.MAX_SPEED) \div Unit

wheelDirection(x) == IF x >= 0 THEN "FORWARD" ELSE "BACKWARD"

wheelPWMs(G, m) ==
    [left |-> wheelPWM(G, m.left, Min(forwardDist_tag(G), leftDist_tag(G)),
                       Min(backwardDist_tag(G), rightDist_tag(G))),
     right |-> wheelPWM(G, m.right, Min(forwardDist_tag(G), rightDist_tag(G)),
                        Min(backwardDist_tag(G), leftDist_tag(G))),
     back |-> wheelPWM(G, m.back, rightDist_tag(G), leftDist_tag(G))]

driveWheels(G, m, pwm) ==
    moveMotor_tag(
        moveMotor_tag(
            moveMotor_tag([G EXCEPT !.request.mix = m, !.request.pwm = pwm],
                          "motorLeft", wheelDirection(m.left), pwm.left),
            "motorRight", wheelDirection(m.right), pwm.right),
        "motorBack", wheelDirection(m.back), pwm.back)

driveMix(G, m) == driveWheels(G, m, wheelPWMs(G, m))

moveRobotMix(G, m) == driveMix(G, scaledMix(m, maxSpeed(m)))

moveRobot(G, vy, vx, omega) ==
    moveRobotMix(G, wheelMix(constrain(vy, -Unit, Unit), constrain(vx, -Unit, Unit),
                             constrain(omega, -Unit, Unit)))

\* the controller's velocity request, vetoed toward a close obstacle
safeRobotMove(G, vy, vx, omega) ==
    IF G.emergencyStop
    THEN stopAllMotors_tag([G EXCEPT !.request.issued = TRUE, !.request.vy = vy,
                                     !.request.vx = vx, !.request.omega = omega])
    ELSE moveRobot([G EXCEPT !.request.issued = TRUE, !.request.vy = vy,
                             !.request.vx = vx, !.request.omega = omega],
                   IF (vy > 0 /\ forwardDist_tag(G) < CRITICAL_DISTANCE_tag)
                        \/ (vy < 0 /\ backwardDist_tag(G) < CRITICAL_DISTANCE_tag)
                   THEN 0 ELSE vy,
                   IF (vx > 0 /\ rightDist_tag(G) < CRITICAL_DISTANCE_tag)
                        \/ (vx < 0 /\ leftDist_tag(G) < CRITICAL_DISTANCE_tag)
                   THEN 0 ELSE vx,
                   omega)

\* the variant of reset that forgets the target and keeps the state
reset_KeepState(G) == [G EXCEPT !.tagController.tagVisible = FALSE]

\* AprilTagController::reset
reset(G) == [G EXCEPT !.tagController = IdleController]

\* AprilTagController::updateTagData
updateTagData(G, x, y, yaw) ==
    [G EXCEPT !.tagController =
        [currentState |-> IF @.currentState = "IDLE" THEN "MOVING_TO_TAG" ELSE @.currentState,
         tagVisible |-> TRUE, targetX |-> x, targetY |-> y, targetYaw |-> yaw]]

\* the rotation speeds calculatePID (floats, the time between two calls) can
\* return: any sign
Axis == {-Unit, 0, Unit}

\* the target is missing or older than TAG_TIMEOUT
TargetStale(G) == ~G.tagController.tagVisible \/ ~tagFresh

\* distance <= POSITION_TOLERANCE, with currentX = currentY = 0 (nothing
\* writes them after reset)
withinPosition(G) ==
    G.tagController.targetX * G.tagController.targetX
      + G.tagController.targetY * G.tagController.targetY
        <= POSITION_TOLERANCE * POSITION_TOLERANCE

\* the rotation error brought into [-PI, PI]
RECURSIVE normalizedAngle(_)
normalizedAngle(e) ==
    IF e > PI THEN normalizedAngle(e - 2 * PI)
    ELSE IF e < -PI THEN normalizedAngle(e + 2 * PI)
    ELSE e

withinRotation(G) == Abs(normalizedAngle(G.tagController.targetYaw)) <= ROTATION_TOLERANCE

\* cos(angle) or sin(angle) times constrain(distance * 0.5, MIN_SPEED,
\* MAX_SPEED): beyond 1 in magnitude for a target off the axis by more than
\* 0.6 degrees, so that moveRobot constrains it to 1 with the sign of the offset
heading(offset) == IF offset > 0 THEN Unit ELSE IF offset < 0 THEN -Unit ELSE 0

\* the variant of the ALIGNING_WITH_TAG case that never finishes the turn
alignWithTag_KeepTurning(G) == {safeRobotMove(G, 0, 0, omega) : omega \in Axis}

\* case ALIGNING_WITH_TAG of processMovement
alignWithTag(G) ==
    IF withinRotation(G)
    THEN {[G EXCEPT !.tagController.currentState = "MAINTAINING_POSITION"]}
    ELSE {safeRobotMove(G, 0, 0, omega) : omega \in Axis}

\* the switch of processMovement on a fresh target: the results it can have
trackTarget(G) ==
    CASE G.tagController.currentState = "MOVING_TO_TAG" ->
            IF withinPosition(G)
            THEN {[G EXCEPT !.tagController.currentState = "ALIGNING_WITH_TAG"]}
            ELSE {safeRobotMove(G, heading(G.tagController.targetY),
                                heading(G.tagController.targetX), omega) : omega \in Axis}
      [] G.tagController.currentState = "ALIGNING_WITH_TAG" -> alignWithTag(G)
      [] G.tagController.currentState = "MAINTAINING_POSITION" ->
            IF ~withinPosition(G) \/ ~withinRotation(G)
            THEN {[G EXCEPT !.tagController.currentState = "MOVING_TO_TAG"]}
            ELSE {safeRobotMove(G,
                                constrain(G.tagController.targetY * Unit,
                                          -G.MIN_SPEED * Unit, G.MIN_SPEED * Unit),
                                constrain(G.tagController.targetX * Unit,
                                          -G.MIN_SPEED * Unit, G.MIN_SPEED * Unit),
                                omega) : omega \in Axis}
      [] OTHER -> {safeRobotMove(G, 0, 0, 0)}

\* the variant of processMovement that keeps tracking a stale target
processMovement_TrackWhenStale(G) ==
    trackTarget([G EXCEPT !.tagController.currentState = "MOVING_TO_TAG"])

\* AprilTagController::processMovement: the results it can have
processMovement(G) ==
    IF TargetStale(G)
    THEN {[safeRobotMove(G, 0, 0, 0) EXCEPT !.tagController.currentState = "IDLE"]}
    ELSE trackTarget(G)

\* updateDistances with the six readings R
updateDistances_tag(G, R) ==
    IF \E s \in Sensors : Min(R[s], 400) < CRITICAL_DISTANCE_tag
    THEN println([G EXCEPT !.dist = [s \in Sensors |-> Min(R[s], 400)],
                           !.emergencyStop = TRUE],
                 Line("EMERGENCY STOP - OBSTACLE DETECTED"))
    ELSE [G EXCEPT !.dist = [s \in Sensors |-> Min(R[s], 400)], !.emergencyStop = FALSE]

distances(G) ==
    <<G.dist["FL"], G.dist["F"], G.dist["FR"], G.dist["BL"], G.dist["B"], G.dist["BR"]>>

sendSensorData(G) == println(G, LineA("SENS", distances(G)))

printDistances(G) == println(G, LineA("Distances (cm)", distances(G)))

executeMovement_tag(G, direction, speed, tagId) ==
    CASE direction = "F" ->
            IF tagId # 99
            THEN moveMotor_tag(moveMotor_tag(moveMotor_tag(
                     println(G, Line("Moving FORWARD")),
                     "motorLeft", "FORWARD", speed), "motorRight", "FORWARD", speed),
                     "motorBack", "STOP", 0)
            ELSE G
      [] direction = "B" ->
            IF tagId # 99
            THEN moveMotor_tag(moveMotor_tag(moveMotor_tag(
                     println(G, Line("Moving BACKWARD")),
                     "motorLeft", "BACKWARD", speed), "motorRight", "BACKWARD", speed),
                     "motorBack", "STOP", 0)
            ELSE G
      [] direction = "L" ->
            moveMotor_tag(moveMotor_tag(moveMotor_tag(
                println(G, Line(IF tagId = 99 THEN "Rotating COUNTERCLOCKWISE"
                                ELSE "Moving LEFT")),
                "motorLeft", "BACKWARD", speed), "motorRight", "FORWARD", speed),
                "motorBack", "FORWARD", speed)
      [] direction = "R" ->
            moveMotor_tag(moveMotor_tag(moveMotor_tag(
                println(G, Line(IF tagId = 99 THEN "Rotating CLOCKWISE"
                                ELSE "Moving RIGHT")),
                "motorLeft", "FORWARD", speed), "motorRight", "BACKWARD", speed),
                "motorBack", "BACKWARD", speed)
      [] direction = "S" -> stopAllMotors_tag(println(G, Line("Stopping all motors")))
      [] OTHER -> stopAllMotors_tag(println(G, Line("Unknown direction")))

\* position of the first comma of s at or after i, or 0 (strchr)
RECURSIVE FirstComma(_, _)
FirstComma(s, i) ==
    IF i > Len(s) THEN 0 ELSE IF s[i] = "," THEN i ELSE FirstComma(s, i + 1)

IsPrefix(p, s) == Len(s) >= Len(p) /\ SubSeq(s, 1, Len(p)) = p

\* atoi / (int)atof of the text from position i
atoi(s, i) == ScanInt(s, i).val
atofInt(s, i) == ScanFloat(s, i).val

\* the diagnostics of TEST after updateDistances
testPulses(G) ==
    println(
        moveMotor_tag(moveMotor_tag(
            println(
                moveMotor_tag(moveMotor_tag(
                    println(
                        moveMotor_tag(moveMotor_tag(
                            println(printDistances(G), Line("Testing LEFT motor...")),
                            "motorLeft", "FORWARD", 150), "motorLeft", "STOP", 0),
                        Line("Testing RIGHT motor...")),
                    "motorRight", "FORWARD", 150), "motorRight", "STOP", 0),
                Line("Testing BACK motor...")),
            "motorBack", "FORWARD", 150), "motorBack", "STOP", 0),
        Line("=== DIAGNOSTIC COMPLETE ==="))

\* the TAG handler once both commas are found at c1 and c2 of the payload p
tagMovement(G, p, c1, c2) ==
    IF c2 >= Len(p) \/ p[c2 + 1] \notin {"F", "B", "L", "R", "S"}
    THEN println(G, Line("ERROR: Invalid direction in TAG command"))
    ELSE println(
             executeMovement_tag(
                 println(G, Line("Processing TAG Command")),
                 p[c2 + 1],
                 Max(constrain(atofInt(p, c1 + 1), G.MIN_SPEED, G.MAX_SPEED), 150),
                 atoi(p, 1)),
             Line("ACK: Tag command processed"))

tagSecondComma(G, p, c1) ==
    IF FirstComma(p, c1 + 1) = 0
    THEN println(G, Line("ERROR: Invalid TAG format - missing second comma"))
    ELSE tagMovement(G, p, c1, FirstComma(p, c1 + 1))

tagCommand(G, p) ==
    IF FirstComma(p, 1) = 0
    THEN println(G, Line("ERROR: Invalid TAG format - missing first comma"))
    ELSE tagSecondComma(G, p, FirstComma(p, 1))

speedUpdate(G, newMaxSpeed, newMinSpeed) ==
    println([G EXCEPT !.MAX_SPEED = newMaxSpeed, !.MIN_SPEED = newMinSpeed],
            LineA("ACK: Speed parameters updated", <<newMaxSpeed, newMinSpeed>>))

speedCommand(G, vals) ==
    IF Len(vals) = 2
    THEN speedUpdate(G, constrain(vals[1], 50, 255),
                     constrain(vals[2], 30, constrain(vals[1], 50, 255)))
    ELSE println(G, Line("ERROR: Invalid SPEED format"))

\* parseCommand of the sketch (DEBUG_MODE is true: the command is echoed);
\* R are the readings TEST and SENSOR take
parseCommand_tag(G0, cmd, R) ==
    CASE cmd = s_TEST ->
            testPulses(updateDistances_tag(
                println(println(G0, Line("Received command")),
                        Line("=== RUNNING DIAGNOSTICS ===")), R))
      [] cmd = s_SENSOR ->
            sendSensorData(updateDistances_tag(println(G0, Line("Received command")), R))
      [] cmd = s_PING -> println(println(G0, Line("Received command")), Line("PONG"))
      [] cmd = s_STOP \/ cmd = s_CLEAR ->
            println(stopAllMotors_tag(reset(println(G0, Line("Received command")))),
                    Line("ACK: Stopped and reset"))
      [] IsPrefix(s_SPEED \o <<":">>, cmd) ->
            speedCommand(println(G0, Line("Received command")),
                         sscanf(SubSeq(cmd, 7, Len(cmd)), <<"d", "d">>))
      [] IsPrefix(s_TAG \o <<":">>, cmd) ->
            tagCommand(println(G0, Line("Received command")), SubSeq(cmd, 5, Len(cmd)))
      [] OTHER ->
            println(println(G0, Line("Received command")), Line("ERROR: Unknown command"))

\* what the host of the sketch sends, and what its sensors read
TagCommands ==
    {
     <<"T", "A", "G", ":", "0", ",", "2", "0", "0", ",", "F">>,         \* TAG:0,200,F
     <<"T", "A", "G", ":", "9", "9", ",", "1", "2", "0", ",", "L">>,    \* TAG:99,120,L
     <<"T", "A", "G", ":", "0", ",", "2", "0", "0">>,                   \* TAG:0,200
     <<"S", "T", "O", "P">>,                                            \* STOP
     <<"S", "P", "E", "E", "D", ":", "2", "0", "0", ",", "6", "0">>,    \* SPEED:200,60
     <<"S", "P", "E", "E", "D", ":", "1", "0", "0", ",", "1", "0", "0">>, \* SPEED:100,100
     <<"T", "E", "S", "T">>,                                            \* TEST
     <<"S", "E", "N", "S", "O", "R">>,                                  \* SENSOR
     <<"P", "I", "N", "G">>,                                            \* PING
     <<"X">>                                                            \* X
    }

TagScene(near, d) == [s \in Sensors |-> IF s \in near THEN d ELSE 70]

TagScenes == {TagScene({}, 70), TagScene({"F"}, 5), TagScene({"F"}, 20), TagScene({"BL"}, 5)}

\* the scenes of a "tracking" session: nothing near, or an obstacle behind
TrackingScenes == {TagScene({}, 70), TagScene({"B"}, 5)}

SessionScenes == IF session = "tracking" THEN TrackingScenes ELSE TagScenes

\* what no step of the sketch touches
otherProgram ==
    <<pinLow, masterOverrideActive, DEBUG_MODE, useThreeWheels, enableObstacleAvoidance,
      prevDirection, decelerationActive, avoidanceState, avoidanceAttempts,
      avoidanceSuccessful, prevDist, frontEmergencyStop, backEmergencyStop,
      leftEmergencyStop, rightEmergencyStop, session, serialLine>>

\* the sketch after setup(): testMotors has pulsed and stopped each wheel, the
\* controller has never received a target, and the time since start may or
\* may not exceed TAG_TIMEOUT already
InitTagSession(name) ==
    /\ session = name
    /\ pc = "serial"
    /\ MAX_SPEED = 150
    /\ MIN_SPEED = 100
    /\ DEBUG_MODE = TRUE
    /\ motor = [w \in Wheels |-> [currentSpeed |-> 0, RPWM |-> 0, LPWM |-> 0]]
    /\ dist = [s \in Sensors |-> 0]
    /\ emergencyStop = FALSE
    /\ tagController = IdleController
    /\ tagFresh \in BOOLEAN
    /\ request = NoRequest
    /\ cycle = NoCycle
    /\ out = <<>>
    /\ wr = {}
    /\ last = NoCmd
    /\ nCmds = 0
    /\ pinLow = FALSE
    /\ masterOverrideActive = FALSE
    /\ useThreeWheels = TRUE
    /\ enableObstacleAvoidance = FALSE
    /\ prevDirection = [w \in Wheels |-> "STOP"]
    /\ decelerationActive = FALSE
    /\ avoidanceState = "IDLE"
    /\ avoidanceAttempts = 0
    /\ avoidanceSuccessful = FALSE
    /\ prevDist = [s \in Sensors |-> 0]
    /\ frontEmergencyStop = FALSE
    /\ backEmergencyStop = FALSE
    /\ leftEmergencyStop = FALSE
    /\ rightEmergencyStop = FALSE
    /\ WholeCommands
    /\ buffer = <<>>
    /\ messageStarted = FALSE
    /\ escapeNext = FALSE
    /\ expired = FALSE
    /\ timeouts = 0
    /\ dispatched = <<>>
    /\ stale = NoStale

InitTag == InitTagSession("tag")

\* ------------------------------------------------------------------------
\* Steps of loop() of the sketch
\* ------------------------------------------------------------------------
CommitSketch(G) ==
    /\ motor' = G.motor
    /\ MAX_SPEED' = G.MAX_SPEED
    /\ MIN_SPEED' = G.MIN_SPEED
    /\ dist' = G.dist
    /\ emergencyStop' = G.emergencyStop
    /\ tagController' = G.tagController
    /\ request' = G.request
    /\ out' = G.out
    /\ wr' = G.wr

\* one line taken from the serial line and handed to parseCommand
TagLine(cmd) ==
    /\ pc = "serial"
    /\ nCmds < Budget(session)
    /\ \E R \in SessionScenes : CommitSketch(parseCommand_tag(Sketch, cmd, R))
    /\ last' = [kind |-> "cmd", cmd |-> cmd,
                wheelsChanged |-> (motor' # motor),
                directionsChanged |-> FALSE,
                configChanged |-> (<<MAX_SPEED, MIN_SPEED>>' # <<MAX_SPEED, MIN_SPEED>>),
                flagsChanged |-> (emergencyStop' # emergencyStop)]
    /\ nCmds' = nCmds + 1
    /\ cycle' = NoCycle
    /\ UNCHANGED <<pc, tagFresh, otherProgram>>

\* the periodic report of loop() after updateDistances
stateReport(G, due) ==
    IF due
    THEN println(printDistances(G),
                 Line(IF G.tagController.currentState # "IDLE"
                      THEN "TAG TRACKING ACTIVE" ELSE "IDLE - Waiting for commands"))
    ELSE G

\* loop() after the serial input: the sensor update when REACTION_DELAY has
\* elapsed
TagSensors ==
    /\ pc = "serial"
    /\ \/ CommitSketch(Sketch)
       \/ \E R \in SessionScenes, due \in BOOLEAN :
              CommitSketch(stateReport(updateDistances_tag(Sketch, R), due))
    /\ pc' = "control"
    /\ last' = NoCmd
    /\ cycle' = NoCycle
    /\ UNCHANGED <<nCmds, tagFresh, otherProgram>>

\* the control cycle of loop() when CONTROL_LOOP_INTERVAL has elapsed
controlCycle(G) ==
    IF G.emergencyStop THEN {stopAllMotors_tag(G)} ELSE processMovement(G)

\* the rest of loop(): the control cycle and the sensor data for the host
TagControl ==
    /\ pc = "control"
    /\ \E ran \in BOOLEAN, send \in BOOLEAN :
           /\ \E G \in (IF ran THEN controlCycle(Sketch) ELSE {Sketch}) :
                  CommitSketch(IF send THEN sendSensorData(G) ELSE G)
           /\ cycle' = [ran |-> ran, stale |-> TargetStale(Sketch),
                        moving |-> \E w \in Wheels : motor[w].currentSpeed > 0,
                        from |-> tagController.currentState]
    /\ pc' = "serial"
    /\ last' = NoCmd
    /\ UNCHANGED <<nCmds, tagFresh, otherProgram>>

\* TAG_TIMEOUT passes since the last target update
TagExpire ==
    /\ tagFresh
    /\ tagFresh' = FALSE
    /\ out' = <<>>
    /\ wr' = {}
    /\ last' = NoCmd
    /\ cycle' = NoCycle
    /\ UNCHANGED <<pc, motor, MAX_SPEED, MIN_SPEED, dist, emergencyStop, tagController,
                   request, nCmds, otherProgram>>

NextTag ==
    \/ \E cmd \in TagCommands : TagLine(cmd)
    \/ TagSensors
    \/ TagControl
    \/ TagExpire

\* ------------------------------------------------------------------------
\* The AprilTagController driven through its public methods: a caller hands
\* it target poses with updateTagData while loop() runs
\* ------------------------------------------------------------------------
Pose(x, y, yaw) == [x |-> x, y |-> y, yaw |-> yaw]

TargetPoses ==
    {Pose(0, 0, 0),           \* on the target
     Pose(3, 4, 50),          \* at both tolerances
     Pose(3, 4, 6300),        \* within tolerance once the angle is normalized
     Pose(3, 4, 60),          \* turned too far
     Pose(-60, -80, -3200)}   \* too far and turned

\* the commands of a "tracking" session
TrackingCommands ==
    {<<"S", "T", "O", "P">>,                                            \* STOP
     <<"C", "L", "E", "A", "R">>}                                       \* CLEAR

InitTracking == InitTagSession("tracking")

\* the pose the controller holds
targetPose(G) ==
    Pose(G.tagController.targetX, G.tagController.targetY, G.tagController.targetYaw)

\* updateTagData called between two statements of loop(); the target is
\* static: once it is visible, every update reports the same pose
UpdateTarget(pose) ==
    /\ session = "tracking"
    /\ nCmds < Budget(session)
    /\ tagController.tagVisible => pose = targetPose(Sketch)
    /\ CommitSketch(updateTagData(Sketch, pose.x, pose.y, pose.yaw))
    /\ tagFresh' = TRUE
    /\ last' = NoCmd
    /\ nCmds' = nCmds + 1
    /\ cycle' = NoCycle
    /\ UNCHANGED <<pc, otherProgram>>

NextTracking ==
    \/ \E pose \in TargetPoses : UpdateTarget(pose)
    \/ \E cmd \in TrackingCommands : TagLine(cmd)
    \/ TagSensors
    \/ TagControl
    \/ TagExpire

SpecTracking == InitTracking /\ [][NextTracking]_vars

\* ------------------------------------------------------------------------
\* moveRobot on its own: three velocities in [-1, 1], applied MaxMixMoves times
\* ------------------------------------------------------------------------
\* full speed, speeds whose mix exceeds 1, speeds around the deadband
MixInputs == {-Unit, -600, -100, 0, 50, 500, Unit}

MixScenes == {TagScene({}, 70), TagScene({"F"}, 20), TagScene({"BL", "BR"}, 5)}

InitMix ==
    /\ session = "mix"
    /\ pc = "control"
    /\ MAX_SPEED \in {150, 255}
    /\ MIN_SPEED = 100
    /\ DEBUG_MODE = TRUE
    /\ motor = [w \in Wheels |-> [currentSpeed |-> 0, RPWM |-> 0, LPWM |-> 0]]
    /\ dist \in MixScenes
    /\ emergencyStop = FALSE
    /\ tagController = IdleController
    /\ tagFresh = TRUE
    /\ \E vy \in MixInputs, vx \in MixInputs, omega \in MixInputs :
           request = [NoRequest EXCEPT !.vy = vy, !.vx = vx, !.omega = omega]
    /\ cycle = NoCycle
    /\ out = <<>>
    /\ wr = {}
    /\ last = NoCmd
    /\ nCmds = 0
    /\ pinLow = FALSE
    /\ masterOverrideActive = FALSE
    /\ useThreeWheels = TRUE
    /\ enableObstacleAvoidance = FALSE
    /\ prevDirection = [w \in Wheels |-> "STOP"]
    /\ decelerationActive = FALSE
    /\ avoidanceState = "IDLE"
    /\ avoidanceAttempts = 0
    /\ avoidanceSuccessful = FALSE
    /\ prevDist = [s \in Sensors |-> 0]
    /\ frontEmergencyStop = FALSE
    /\ backEmergencyStop = FALSE
    /\ leftEmergencyStop = FALSE
    /\ rightEmergencyStop = FALSE
    /\ WholeCommands
    /\ buffer = <<>>
    /\ messageStarted = FALSE
    /\ escapeNext = FALSE
    /\ expired = FALSE
    /\ timeouts = 0
    /\ dispatched = <<>>
    /\ stale = NoStale

\* one call of moveRobot with the velocities of the session
MoveRobot ==
    /\ session = "mix"
    /\ nCmds < MaxMixMoves
    /\ CommitSketch(moveRobot([Sketch EXCEPT !.request = request],
                              request.vy, request.vx, request.omega))
    /\ nCmds' = nCmds + 1
    /\ UNCHANGED <<pc, tagFresh, last, cycle, otherProgram>>

NextMix == MoveRobot

SpecMix == InitMix /\ [][NextMix]_vars

SpecTag == InitTag /\ [][NextTag]_vars

\* ------------------------------------------------------------------------
\* Vocabulary of the properties
\* ------------------------------------------------------------------------
LastVerb == CommandOf(last.cmd)
LastParams == ParamsOf(last.cmd)
Dispatched == last.kind = "cmd"

\* the direction code of the discrete request the last command made through
\* MOV, TAG or a key (-1: it made none)
RequestCode ==
    IF ~Dispatched THEN -1
    ELSE IF LastVerb = s_MOV /\ Len(sscanf(LastParams, <<"d", "d">>)) = 2
    THEN sscanf(LastParams, <<"d", "d">>)[1]
    ELSE IF LastVerb = s_TAG /\ Len(sscanf(LastParams, <<"d", "f", "d", "d">>)) = 4
    THEN sscanf(LastParams, <<"d", "f", "d", "d">>)[3]
    ELSE IF Len(LastVerb) = 1 THEN KeyCode(LastVerb[1])
    ELSE -1

IsDiscreteRequest == Dispatched /\ RequestCode \in 1..12

IsRotRequest ==
    Dispatched /\ LastVerb = s_ROT /\ Len(sscanf(LastParams, <<"d", "d">>)) = 2

\* the components of the twelve maneuvers, by their names
ForwardFamily == {1, 9, 10}
BackwardFamily == {2, 11, 12}
LeftFamily == {3, 7, 9, 11}
RightFamily == {4, 8, 10, 12}
Rotations == {5, 6}

InBlockedDirection(code) ==
    \/ code \in ForwardFamily /\ frontEmergencyStop
    \/ code \in BackwardFamily /\ backEmergencyStop
    \/ code \in LeftFamily /\ leftEmergencyStop
    \/ code \in RightFamily /\ rightEmergencyStop
    \/ code \in Rotations /\ (leftEmergencyStop \/ rightEmergencyStop)

AllWheelsZero ==
    \A w \in Wheels :
        motor[w].RPWM = 0 /\ motor[w].LPWM = 0 /\ motor[w].currentSpeed = 0

NoNonzeroDutyWritten == wr \subseteq {0}

C2_OverrideVetoesEveryRequest ==
    (masterOverrideActive /\ (RequestCode # -1 \/ IsRotRequest))
        => ~last.wheelsChanged

\* ------------------------------------------------------------------------
\* C3: once the master override is active (set from the pin or by GO_IDLE on
\* the bus) the three wheel outputs are zero, and they stay zero for as long
\* as it is active.
\* ------------------------------------------------------------------------
C3_OverrideKeepsWheelsAtZero == masterOverrideActive => AllWheelsZero

C5_DutyWithinMaxSpeed == \A v \in wr : 0 <= v /\ v <= MAX_SPEED

\* ------------------------------------------------------------------------
\* C6: when a movement request is evaluated, each interlock flag is true
\* exactly when the minimum of its sensor group in the current distance
\* snapshot is below CRITICAL_DISTANCE.
\* ------------------------------------------------------------------------
FlagsMatchSnapshot ==
    /\ frontEmergencyStop <=> (forwardDist < CRITICAL_DISTANCE)
    /\ backEmergencyStop <=> (backwardDist < CRITICAL_DISTANCE)
    /\ leftEmergencyStop <=> (leftDist < CRITICAL_DISTANCE)
    /\ rightEmergencyStop <=> (rightDist < CRITICAL_DISTANCE)

C6_FlagsMatchSnapshotAtRequest == IsDiscreteRequest => FlagsMatchSnapshot

\* ------------------------------------------------------------------------
\* C7: an admitted discrete request whose dynamic speed is zero (the minimum
\* distance of its sensor group is at or below CRITICAL_DISTANCE) drives no
\* wheel at a nonzero speed.  It is stated for the states in which the
\* interlock flags agree with the distance snapshot, so that it does not
\* rest on C6.
\* ------------------------------------------------------------------------
Admitted(code) == ~masterOverrideActive /\ ~GateBlocks(code)

ZeroDynamicSpeed(code) ==
    /\ code \in 1..10
    /\ DynamicDistance(code) <= CRITICAL_DISTANCE

C7_ZeroDynamicSpeedDrivesNothing ==
    (IsDiscreteRequest /\ Admitted(RequestCode) /\ ZeroDynamicSpeed(RequestCode)
       /\ FlagsMatchSnapshot)
        => NoNonzeroDutyWritten

\* ------------------------------------------------------------------------
\* C8: every dispatched command writes exactly one response line.
\* ------------------------------------------------------------------------
C8_ExactlyOneResponseLine == Dispatched => Len(out) = 1

\* ------------------------------------------------------------------------
\* C9: a command whose payload is unparsable or out of range (MOV with a
\* direction code outside 0..12, ROT with a direction other than 1 or 2,
\* SPEED with values outside the allowed range or not numeric) is answered
\* with a negative acknowledgment and changes no wheel output, speed limit,
\* mode flag or interlock flag.
\* ------------------------------------------------------------------------
LastTwoInts == sscanf(LastParams, <<"d", "d">>)

BadPayload ==
    /\ Dispatched
    /\ \/ LastVerb = s_MOV /\ (Len(LastTwoInts) # 2 \/ LastTwoInts[1] \notin 0..12)
       \/ LastVerb = s_ROT /\ (Len(LastTwoInts) # 2 \/ LastTwoInts[1] \notin {1, 2})
       \/ LastVerb = s_SPEED
            /\ \/ Len(LastTwoInts) # 2
               \/ LastTwoInts[1] \notin 50..255
               \/ LastTwoInts[2] \notin 30..(LastTwoInts[1] - 5)

NegativeAcks ==
    {"ERR:Invalid MOV params", "ERR:Invalid ROT params", "ERR:Invalid rotation direction",
     "ERR:Invalid SPEED params", "ERR:Invalid CLEAR direction", "ERR:Invalid MODE param",
     "ERR:Invalid mode value (use 0 or 1)", "ERR:Invalid TAG params", "ERR:Unknown command"}

NegativelyAcknowledged == \E i \in 1..Len(out) : out[i].tag \in NegativeAcks

C9_BadPayloadChangesNothing ==
    BadPayload => /\ NegativelyAcknowledged
                  /\ ~last.wheelsChanged
                  /\ ~last.configChanged
                  /\ ~last.flagsChanged

\* ------------------------------------------------------------------------
\* C10: a SPEED command whose payload is not two integers (abc, 100, 100,x,
\* an empty first field, no payload) is answered <ERR:Invalid SPEED params>
\* and leaves MAX_SPEED and MIN_SPEED unchanged.
\* ------------------------------------------------------------------------
NotTwoIntegers ==
    {<<"a", "b", "c">>, <<"1", "0", "0">>, <<"1", "0", "0", ",", "x">>, <<",", "5", "0">>, <<>>}

C10_BadSpeedPayloadRejected ==
    (Dispatched /\ LastVerb = s_SPEED /\ LastParams \in NotTwoIntegers)
        => /\ \E i \in 1..Len(out) : out[i] = Line("ERR:Invalid SPEED params")
           /\ \A i \in 1..Len(out) : out[i].tag # "ACK:SPEED"
           /\ ~last.configChanged

\* SPEED:100,x has been dispatched
C10_Witness ==
    /\ Dispatched
    /\ LastVerb = s_SPEED
    /\ LastParams = <<"1", "0", "0", ",", "x">>
    /\ out = <<Line("ERR:Invalid SPEED params")>>

\* ------------------------------------------------------------------------
\* Framing
\* ------------------------------------------------------------------------
\* the commands dispatched so far
DispatchedCommands == [i \in DOMAIN dispatched |-> dispatched[i].cmd]

\* the frame is the only thing on the line and arrives without a silent second
FrameFromIdle == host.prior = <<>> /\ timeouts = 0

\* C11: a payload of at most COMMAND_BUFFER_SIZE-1 bytes, framed with its
\* markers and escape characters escaped and read from the idle parser,
\* is dispatched byte for byte: nothing is dispatched while the frame is
\* being read, and exactly the payload once it has been read.
C11_FrameRoundTrip ==
    FrameFromIdle =>
        DispatchedCommands = IF stream = <<>> THEN <<host.payload>> ELSE <<>>

\* a payload that fills the buffer and ends in an end marker has been
\* dispatched
C11_Witness ==
    /\ FrameFromIdle
    /\ host.payload = Rep("W", COMMAND_BUFFER_SIZE - 2) \o <<">">>
    /\ stream = <<>>
    /\ DispatchedCommands = <<host.payload>>

\* was the command dispatched by a byte of the frame
ByFrame(e) == e.unread < Len(Frame(host.payload))

\* the commands dispatched by the bytes of the frame
FrameDispatches ==
    [i \in DOMAIN SelectSeq(dispatched, ByFrame) |-> SelectSeq(dispatched, ByFrame)[i].cmd]

\* C12: whatever bytes came before it (partial legacy text, a stray escape
\* character, an incomplete or overlong frame), a complete frame that has
\* been read without a silent second was dispatched exactly once, with
\* exactly its payload.
C12_FrameDispatchedAfterAnyHistory ==
    (timeouts = 0 /\ stream = <<>>) => FrameDispatches = <<host.payload>>

\* the character "X" is only ever sent as part of a command longer than the
\* buffer
PartOfOverlong(cmd) == \E j \in DOMAIN cmd : cmd[j] = "X"

\* C13: no truncated or partial version of a command longer than the buffer
\* is ever dispatched.
C13_OverlongNeverDispatched ==
    \A i \in DOMAIN dispatched : ~PartOfOverlong(dispatched[i].cmd)

\* the silent second fell between the prior bytes and the frame
SilenceBeforeFrame == stale.seen /\ stale.unread = Len(Frame(host.payload))

\* C14: a partial command (framed or legacy) left on the line for more than
\* one second is discarded together with the in-frame and escape flags, and
\* none of it reaches a later command: the frame sent after the silence is
\* dispatched as sent.
C14_StalePartialDiscarded ==
    stale.seen =>
        /\ stale.parser = IdleParser
        /\ (SilenceBeforeFrame /\ stream = <<>>) => FrameDispatches = <<host.payload>>

\* ------------------------------------------------------------------------
\* Teleoperation keys
\* ------------------------------------------------------------------------
Keys == {"W", "A", "S", "D", "Q", "E", "1", "3", "4", "6", "7", "9", "5"}

DigitChars == <<"0", "1", "2", "3", "4", "5", "6", "7", "8", "9">>

\* the decimal text of a natural number
RECURSIVE Decimal(_)
Decimal(n) ==
    IF n < 10 THEN <<DigitChars[n + 1]>>
    ELSE Decimal(n \div 10) \o <<DigitChars[(n % 10) + 1]>>

\* the text MOV:<code>,<speed>
MovText(code, speed) ==
    <<"M", "O", "V", ":">> \o Decimal(code) \o <<",">> \o Decimal(speed)

\* what a command does to the wheels: speeds, pins, remembered directions
\* and the duties written
WheelEffect(G) == <<G.M.motor, G.M.prevDirection, G.M.wr>>

\* C15: the thirteen keys map one-to-one onto the direction codes 0..12, and
\* in every state each key does to the wheels what MOV with that code at
\* MAX_SPEED does.
C15_KeysAreMovAtMaxSpeed ==
    /\ Cardinality(Keys) = 13
    /\ {KeyCode(k) : k \in Keys} = 0..12
    /\ \A k \in Keys :
           WheelEffect(parseCommand(Machine, <<k>>))
               = WheelEffect(parseCommand(Machine, MovText(KeyCode(k), MAX_SPEED)))

\* a state in which a key drives the wheels while another key is vetoed
C15_Witness ==
    /\ pc = "serial"
    /\ ~masterOverrideActive
    /\ frontEmergencyStop
    /\ parseCommand(Machine, <<"W">>).M.motor = motor
    /\ parseCommand(Machine, <<"S">>).M.motor # motor

\* ------------------------------------------------------------------------
\* Ramp after a forward request
\* ------------------------------------------------------------------------
\* MOV:1,100 has just been dispatched with no obstacle and no override
ForwardRequested ==
    /\ Dispatched
    /\ last.cmd = <<"M", "O", "V", ":", "1", ",", "1", "0", "0">>
    /\ ~masterOverrideActive
    /\ ~emergencyStop
    /\ \A s \in Sensors : dist[s] >= SAFE_DISTANCE

DrivenWheels == IF useThreeWheels THEN Wheels ELSE {"motorLeft", "motorRight"}

ForwardDirection(w) == IF w = "motorLeft" THEN "BACKWARD" ELSE "FORWARD"

\* every driven wheel turns in its forward direction at speed 100
ForwardAtRequestedSpeed ==
    \A w \in DrivenWheels :
        /\ motor[w].currentSpeed = 100 * Scale
        /\ prevDirection[w] = ForwardDirection(w)

\* C16: after MOV:1,100 with no obstacle and no override, the control cycles
\* that follow bring every driven wheel to speed 100 (left BACKWARD, right
\* FORWARD, back FORWARD in three-wheel mode).
C16_ForwardRequestReachesSpeed == [](ForwardRequested => <>ForwardAtRequestedSpeed)

\* ------------------------------------------------------------------------
\* Obstacle avoidance
\* ------------------------------------------------------------------------
\* a forward request (code 1) has just been dispatched without override
ForwardRequest == Dispatched /\ IsDiscreteRequest /\ RequestCode = 1 /\ ~masterOverrideActive

\* C17: with avoidance enabled and the avoidance state IDLE, a forward
\* request (code 1) that the front interlock vetoes takes the avoidance state
\* machine from IDLE to ROTATING_AWAY.
C17_VetoedForwardStartsAvoidance ==
    [][(/\ enableObstacleAvoidance
        /\ avoidanceState = "IDLE"
        /\ frontEmergencyStop
        /\ ForwardRequest') => avoidanceState' = "ROTATING_AWAY"]_vars

\* moveForward is only called by executeMovement, whose gate has already
\* returned when the front flag is set: the avoidance state machine never
\* leaves IDLE and never counts an attempt
AvoidanceNeverStarts ==
    avoidanceState = "IDLE" /\ avoidanceAttempts = 0 /\ ~avoidanceSuccessful

\* ------------------------------------------------------------------------
\* The tracking controller
\* ------------------------------------------------------------------------
\* the last step ran the control cycle, and the target was missing or older
\* than TAG_TIMEOUT when it started
StaleControlCycle == cycle.ran /\ cycle.stale

ZeroRequest == request.vy = 0 /\ request.vx = 0 /\ request.omega = 0

TagStartedWheels ==
    /\ Dispatched
    /\ LastVerb = s_TAG
    /\ Len(sscanf(LastParams, <<"d", "f", "d", "d">>)) = 4
    /\ \E w \in Wheels : motor[w].currentSpeed > 0
    /\ \A s \in Sensors : dist[s] >= SAFE_DISTANCE
    /\ nCmds = MaxCruiseCmds

\* C21: after a valid TAG command has set the wheels in motion and no further
\* command arrives, the wheels are eventually commanded to stop (the tag
\* update is older than 1000 ms after finitely many passes of loop()).
C21_SilentTagStopsWheels == [](TagStartedWheels => <>AllWheelsZero)


\* the last step ran the control cycle on a fresh target with no obstacle
\* closer than CRITICAL_DISTANCE
TrackingCycle == cycle.ran /\ ~cycle.stale /\ ~emergencyStop

TargetInTolerance == withinPosition(Sketch) /\ withinRotation(Sketch)

\* C22: with a static target whose position error and yaw error are within
\* POSITION_TOLERANCE and ROTATION_TOLERANCE and no obstacle, every control
\* cycle takes the controller from MOVING_TO_TAG to ALIGNING_WITH_TAG, from
\* ALIGNING_WITH_TAG to MAINTAINING_POSITION, and from MAINTAINING_POSITION to
\* MAINTAINING_POSITION: it is there after two cycles and in every later one.
C22_InToleranceSettles ==
    (TrackingCycle /\ TargetInTolerance) =>
        tagController.currentState =
            CASE cycle.from = "MOVING_TO_TAG" -> "ALIGNING_WITH_TAG"
              [] cycle.from = "ALIGNING_WITH_TAG" -> "MAINTAINING_POSITION"
              [] cycle.from = "MAINTAINING_POSITION" -> "MAINTAINING_POSITION"
              [] OTHER -> tagController.currentState

\* a control cycle found the controller maintaining its position at a target
\* 5 mm away and turned by more than a full circle, and left it there
C22_Witness ==
    /\ TrackingCycle
    /\ TargetInTolerance
    /\ tagController.targetX = 3
    /\ tagController.targetYaw = 6300
    /\ cycle.from = "MAINTAINING_POSITION"
    /\ tagController.currentState = "MAINTAINING_POSITION"
    /\ request.issued


\* the last step was a TAG command the sketch accepted
TagUpdateAccepted ==
    /\ Dispatched
    /\ IsPrefix(<<"T", "A", "G", ":">>, last.cmd)
    /\ \E i \in 1..Len(out) : out[i].tag = "ACK: Tag command processed"

\* C23: a valid TAG target update received over the command protocol while
\* the controller is IDLE moves it to MOVING_TO_TAG.
C23_TagUpdateStartsTracking ==
    [][(tagController.currentState = "IDLE" /\ TagUpdateAccepted')
          => tagController'.currentState = "MOVING_TO_TAG"]_vars


\* ------------------------------------------------------------------------
\* The wheel mix
\* ------------------------------------------------------------------------
\* the largest wheel value of the mix of the session's velocities before it is
\* scaled
RawMixPeak == maxSpeed(wheelMix(request.vy, request.vx, request.omega))

\* C24: for every (vx, vy, omega) with each component in [-1, 1], the three
\* wheel values after normalization and deadband have magnitude at most 1 and
\* each wheel PWM is at most MAX_SPEED.
C24_WheelValuesWithinOne ==
    \A w \in {"left", "right", "back"} :
        /\ Abs(request.mix[w]) <= Unit
        /\ request.pwm[w] <= MAX_SPEED

\* moveRobot has scaled a mix that peaked above 2 down to 1 on one wheel and
\* written the full duty for it
C24_Witness ==
    /\ session = "mix"
    /\ nCmds > 0
    /\ RawMixPeak > 2 * Unit
    /\ \E w \in {"left", "right", "back"} :
           Abs(request.mix[w]) = Unit /\ request.pwm[w] = MAX_SPEED


\* ------------------------------------------------------------------------
\* Two-wheel mode
\* ------------------------------------------------------------------------
BackWheelOff == motor["motorBack"].RPWM = 0 /\ motor["motorBack"].LPWM = 0

\* C25: in every reachable state with two-wheel mode selected (including right
\* after switching from three-wheel mode while the back wheel was running, and
\* after vetoed requests) the back wheel output is zero.
C25_TwoWheelModeBackWheelOff == ~useThreeWheels => BackWheelOff


\* ------------------------------------------------------------------------
\* Cancellation
\* ------------------------------------------------------------------------
\* the last step processed STOP or CLEAR
StopProcessed == Dispatched /\ last.cmd \in {s_STOP, s_CLEAR}

RequestAck ==
    IF LastVerb = s_MOV THEN "ACK:MOV"
    ELSE IF LastVerb = s_TAG THEN "ACK:TAG"
    ELSE KeyAck(RequestCode)

RequestAcknowledged == \E i \in 1..Len(out) : out[i].tag = RequestAck

\* C27: a movement request vetoed by a directional interlock leaves every
\* wheel's direction and speed exactly as it was before the request and is
\* still acknowledged as a recognized command.
C27_VetoedRequestKeepsWheels ==
    (IsDiscreteRequest /\ InBlockedDirection(RequestCode))
        => /\ ~last.wheelsChanged
           /\ ~last.directionsChanged
           /\ RequestAcknowledged

\* a forward request was vetoed by the front interlock while a wheel was
\* turning, and the wheel still turns
C27_Witness ==
    /\ IsDiscreteRequest
    /\ RequestCode = 1
    /\ frontEmergencyStop
    /\ ~masterOverrideActive
    /\ ~last.wheelsChanged
    /\ RequestAcknowledged
    /\ \E w \in Wheels : motor[w].currentSpeed > 0 /\ motor[w].RPWM + motor[w].LPWM > 0


\* ------------------------------------------------------------------------
\* Requests received under override
\* ------------------------------------------------------------------------
\* the request of the session arrived while the master override was active
RequestHeldByOverride == session = "held" /\ host.underOverride

\* the last step dispatched a command that changed a wheel
RequestExecuted == Dispatched /\ last.wheelsChanged

\* C28: a movement request that arrives while the master override is active
\* causes no wheel motion during the override and is not executed later when
\* the override is released.
C28_RequestUnderOverrideDropped == RequestHeldByOverride => ~RequestExecuted

\* ------------------------------------------------------------------------
\* The ramp of one wheel
\* ------------------------------------------------------------------------
\* the duty on the pins of wheel w
Duty(w) == motor[w].RPWM + motor[w].LPWM

\* MAX_SPEED x ACCEL_RATE in hundredths
RampStep == MAX_SPEED * ACCEL_RATE

\* the step is one call of moveMotor for wheel w, in the direction of the
\* call before it, which left the wheel running
SameDirectionActuation(w) ==
    /\ last'.kind = "cmd"
    /\ CommandOf(last'.cmd) = s_MOV
    /\ motor'[w] # motor[w]
    /\ prevDirection'[w] = prevDirection[w]
    /\ Duty(w) > 0

\* C29: in every actuation of a wheel in which its direction is unchanged,
\* currentSpeed moves by at most MAX_SPEED x ACCEL_RATE, and the duty written
\* to the wheel does not rise by more than that step over the duty written by
\* the actuation before it.
C29_RampStepBoundsSpeedAndDuty ==
    [][\A w \in Wheels :
         SameDirectionActuation(w)
           => /\ Abs(motor'[w].currentSpeed - motor[w].currentSpeed) <= RampStep'
              /\ (Duty(w)' - Duty(w)) * Scale <= RampStep']_vars


\* ------------------------------------------------------------------------
\* Reversal of a wheel
\* ------------------------------------------------------------------------
\* the step is a command that drives wheel w, which was running in one
\* direction, in the opposite direction
Reversed(w) ==
    /\ last'.kind = "cmd"
    /\ \/ motor[w].RPWM > 0 /\ motor'[w].LPWM > 0
       \/ motor[w].LPWM > 0 /\ motor'[w].RPWM > 0

\* C30: whenever a wheel that is running in one direction is commanded in the
\* opposite direction, its currentSpeed is reset to zero first, so that after
\* the command the speed in the new direction is at most one ramp step.
C30_ReversalRampsFromZero ==
    [][\A w \in Wheels : Reversed(w) => motor'[w].currentSpeed <= RampStep']_vars

\* ------------------------------------------------------------------------
\* The stall floor
\* ------------------------------------------------------------------------
\* the last command was a MOV request for a maneuver at speed zero
ZeroSpeedRequest ==
    /\ Dispatched
    /\ LastVerb = s_MOV
    /\ Len(LastTwoInts) = 2
    /\ LastTwoInts[1] \in 1..12
    /\ LastTwoInts[2] = 0

\* C31: every duty value written to a wheel is 0 or at least MIN_SPEED, and a
\* movement request whose target speed is exactly zero leaves zero duty on
\* every wheel (it is not raised to MIN_SPEED).
C31_DutyZeroOrAtLeastMinSpeed ==
    /\ \A v \in wr : v = 0 \/ v >= MIN_SPEED
    /\ ZeroSpeedRequest => \A w \in Wheels : Duty(w) = 0

\* ------------------------------------------------------------------------
\* The veto of one axis in tag tracking
\* ------------------------------------------------------------------------
\* the sensor groups with an obstacle closer than CRITICAL_DISTANCE
BlockedSides ==
    {side \in {"front", "back", "left", "right"} :
        CASE side = "front" -> forwardDist_tag(Sketch) < CRITICAL_DISTANCE_tag
          [] side = "back" -> backwardDist_tag(Sketch) < CRITICAL_DISTANCE_tag
          [] side = "left" -> leftDist_tag(Sketch) < CRITICAL_DISTANCE_tag
          [] side = "right" -> rightDist_tag(Sketch) < CRITICAL_DISTANCE_tag}

\* the velocity on the forward axis and on the sideways axis that approaching
\* the target asks for
ApproachVy == heading(tagController.targetY)
ApproachVx == heading(tagController.targetX)

\* the last step ran the control cycle while the controller was approaching a
\* fresh target that lies off both axes, with exactly one side blocked
PartlyBlockedApproach ==
    /\ cycle.ran
    /\ ~cycle.stale
    /\ cycle.from = "MOVING_TO_TAG"
    /\ ~withinPosition(Sketch)
    /\ ApproachVy # 0
    /\ ApproachVx # 0
    /\ Cardinality(BlockedSides) = 1

\* a velocity component, zero when it points at a blocked side
Unblocked(v, positiveSide, negativeSide) ==
    IF (v > 0 /\ positiveSide \in BlockedSides) \/ (v < 0 /\ negativeSide \in BlockedSides)
    THEN 0 ELSE v

\* the wheel values of the approach with the blocked component taken out
UnblockedMix ==
    wheelMix(Unblocked(ApproachVy, "front", "back"),
             Unblocked(ApproachVx, "right", "left"), request.omega)

\* C32: in tag tracking, when exactly one directional interlock condition
\* holds and the controller's motion has components on several axes, only the
\* component toward the blocked side is zeroed: the other components reach
\* the kinematic mapper, and the tracking state is not changed.
C32_VetoZeroesOneAxisOnly ==
    PartlyBlockedApproach =>
        /\ request.issued
        /\ request.mix = scaledMix(UnblockedMix, maxSpeed(UnblockedMix))
        /\ tagController.currentState = cycle.from

\* ------------------------------------------------------------------------
\* Avoidance while it is disabled
\* ------------------------------------------------------------------------
\* the last command was an AVOID command that assigned the enable flag
AvoidFlagSet ==
    Dispatched /\ LastVerb = s_AVOID /\ Len(sscanf(LastParams, <<"d">>)) = 1

GoActive == ReceiveEvent("GO_ACTIVE")

\* C34: once the master override has been activated by GO_IDLE on the bus, it
\* stays active in every later pass of loop() until GO_ACTIVE is received;
\* polling the override pin while the pin is inactive does not release it.
\* (In a "bus" session the pin is never asserted, so the override is active
\* only after GO_IDLE.)
C34_BusOverrideHeldUntilGoActive ==
    [][(session = "bus" /\ masterOverrideActive /\ ~GoActive) => masterOverrideActive']_vars

\* the step is the bus interrupt, whatever the master sent
BusInterrupt == \E cmd \in BusCommands : ReceiveEvent(cmd)

\* what moveMotor and the stop functions work on
motorState == <<motor, prevDirection, decelerationActive>>

\* C35: the bus receive handler hands its commands over through flag writes
\* only and never touches the motor state itself; and however GO_IDLE is
\* interleaved with loop(), also between the override test of a movement
\* command and its wheel writes, no wheel is driven while the override is
\* active once the next pass of loop() has begun.
C35_ReceiveHandlerOnlySetsFlags ==
    [][/\ BusInterrupt => motorState' = motorState
       /\ (LoopTop /\ masterOverrideActive') => AllWheelsZero']_vars

\* ------------------------------------------------------------------------
\* Interlocks raised while the wheels are running
\* ------------------------------------------------------------------------
\* the wheels run as moveForward / moveBackward left them (the only movements
\* of a "bus" session)
DrivenForward ==
    prevDirection["motorRight"] = "FORWARD" /\ Duty("motorRight") > 0
DrivenBackward ==
    prevDirection["motorRight"] = "BACKWARD" /\ Duty("motorRight") > 0

\* an interlock is set for the direction the wheels are driven in
DrivenIntoInterlock ==
    \/ frontEmergencyStop /\ DrivenForward
    \/ backEmergencyStop /\ DrivenBackward

\* C36: when a directional interlock has become true while the wheels are
\* still driven in that direction by an earlier command, the wheel outputs are
\* stopped within one control cycle, without any further command: a pass of
\* the control part of loop() that starts with the interlock set and the
\* wheels driven into it ends with every wheel at zero.
C36_InterlockStopsRunningWheels ==
    [][(session = "bus" /\ DrivenIntoInterlock /\ LoopControl) => AllWheelsZero']_vars

allFlagsSet ==
    frontEmergencyStop /\ backEmergencyStop /\ leftEmergencyStop /\ rightEmergencyStop

\* C37: whenever all four interlock flags are set, emergencyStopAllMotors has
\* been invoked since they all became set, whether they were set in the same
\* tick or one after another: the step that sets the last of them leaves every
\* wheel at zero.
C37_AllSidesBlockedStopsWheels ==
    [][(~allFlagsSet /\ allFlagsSet') => AllWheelsZero']_vars

\* ------------------------------------------------------------------------
\* The ROT command
\* ------------------------------------------------------------------------
\* the last step dispatched ROT:1,s or ROT:2,s
RotTurnRequest ==
    Dispatched /\ LastVerb = s_ROT /\ Len(LastTwoInts) = 2 /\ LastTwoInts[1] \in {1, 2}

\* what vetoes the discrete rotations MOV:5 and MOV:6
RotationVetoed == masterOverrideActive \/ leftEmergencyStop \/ rightEmergencyStop

\* the wheels after ROT:1,60 / ROT:2,60 and after MOV:5,60 / MOV:6,60, sent in
\* the current state
RotSameAsMov ==
    /\ RotCommand(Machine, <<"1", ",", "6", "0">>).M.motor
         = MovCommand(Machine, <<"5", ",", "6", "0">>).M.motor
    /\ RotCommand(Machine, <<"2", ",", "6", "0">>).M.motor
         = MovCommand(Machine, <<"6", ",", "6", "0">>).M.motor

\* C38: ROT is gated like the equivalent discrete rotation: ROT:1,s and
\* ROT:2,s have the same effect on the wheel outputs as MOV:5,s and MOV:6,s,
\* and ROT drives no wheel while the left or right interlock is set or the
\* master override is active.
C38_RotGatedLikeRotation ==
    /\ (RotTurnRequest /\ RotationVetoed) => NoNonzeroDutyWritten
    /\ pc = "serial" => RotSameAsMov

\* ------------------------------------------------------------------------
\* The speed configuration
\* ------------------------------------------------------------------------
SpeedConfigConsistent ==
    /\ 50 <= MAX_SPEED /\ MAX_SPEED <= 255
    /\ 30 <= MIN_SPEED /\ MIN_SPEED <= MAX_SPEED - 5

\* the last command changed MAX_SPEED or MIN_SPEED (the whole configuration of
\* the tracking sketch)
SpeedConfigChanged == Dispatched /\ session = "tag" /\ last.configChanged

\* the last step dispatched a SPEED command whose two numbers were converted
SpeedCommandParsed ==
    Dispatched /\ LastVerb = s_SPEED /\ Len(LastTwoInts) = 2

\* C39: after any sequence of commands 50 <= MAX_SPEED <= 255 and
\* 30 <= MIN_SPEED <= MAX_SPEED - 5, and MAX_SPEED and MIN_SPEED are changed
\* by no command other than a successfully parsed SPEED command.
C39_SpeedConfigConsistent ==
    /\ SpeedConfigConsistent
    /\ SpeedConfigChanged => SpeedCommandParsed

\* ------------------------------------------------------------------------
\* The verb and parameter buffers of parseCommand
\* ------------------------------------------------------------------------
\* char command[16]; char params[COMMAND_BUFFER_SIZE - 16]
CommandSize == 16

\* bytes written to command[]: strncpy of colonPos characters and the
\* terminator at command[colonPos], or strcpy of the whole string
commandWritten(cmd) ==
    IF FirstColon(cmd, 1) > 0 THEN FirstColon(cmd, 1) ELSE Len(cmd) + 1

\* bytes written to params[]: strcpy of what follows the colon
paramsWritten(cmd) ==
    IF FirstColon(cmd, 1) > 0 THEN Len(cmd) - FirstColon(cmd, 1) + 1 ELSE 0

\* C40: for every command string the parser dispatches (up to
\* COMMAND_BUFFER_SIZE-1 characters, with a colon anywhere or none), splitting
\* it writes at most 15 characters and the terminator into the 16-byte verb
\* buffer and at most 47 characters and the terminator into the 48-byte
\* parameter buffer.
C40_SplitStaysInsideBuffers ==
    \A i \in DOMAIN DispatchedCommands :
        /\ Len(DispatchedCommands[i]) <= COMMAND_BUFFER_SIZE - 1
        /\ commandWritten(DispatchedCommands[i]) <= CommandSize
        /\ paramsWritten(DispatchedCommands[i]) <= COMMAND_BUFFER_SIZE - CommandSize

====
